---- MODULE Spec2Model ----
(***************************************************************************)
(* llm-monitor: the intercepting reverse proxy (internal/handler), the     *)
(* branched conversation store (storage.PostgresStorage) and the saving    *)
(* mixin (interceptor.SavingInterceptor), as state machines.               *)
(*                                                                         *)
(*   SpecProxy    one request through ProxyHandler.ServeHTTP               *)
(*   SpecStore    sequential CreateConversation / AddMessage calls         *)
(*   SpecDeep     the same store calls, one payload, longer runs           *)
(*   SpecTx       AddMessage transactions interleaved statement by         *)
(*                statement under READ COMMITTED                           *)
(*   SpecSave     SaveToStorage calls against the store                    *)
(*   SpecChat     consecutive SaveToStorage calls of one interceptor       *)
(*   SpecManager  RegisterInterceptor / GetInterceptor calls on a Manager  *)
(*   SpecOpenAI   the OpenAI ChatInterceptor.RequestInterceptor on a body  *)
(*   SpecSSE      the OpenAI ChatInterceptor.ChunkInterceptor on a stream  *)
(*   SpecFind     store calls and FindMessageByHistory lookups             *)
(*   SpecRequest  the request-time and the terminal save of one request    *)
(*   SpecOllama   the Ollama interceptors' ChunkInterceptor on a stream    *)
(*   SpecRefused  store calls, some with a message the table refuses       *)
(***************************************************************************)
EXTENDS Integers, Sequences, FiniteSets, TLC

VARIABLES
    \* ---- proxy: one request in ProxyHandler.ServeHTTP
    pc,          \* position in ServeHTTP / ServeHTTP2
    intcptor,    \* TRUE iff Manager.GetInterceptor returned an interceptor
    trace,       \* hook invocations and the upstream dispatch, in call order
    running,     \* hooks that were called and have not returned yet
    hookErrs,    \* hooks that returned an error, with the chunks read by then
    resp,        \* the upstream response (NoResp before Client.Do returned one)
    nread,       \* chunks io.Copy has read from resp.Body so far
    buf,         \* the body / chunk travelling from the read to the write
    err,         \* the error ServeHTTP2 returns ("" is nil)
    client,      \* what the client's ResponseWriter received
    \* ---- store: the tables of schema.sql
    conversations, branches, messages,   \* a row's id is its index
    last,        \* the last store call, its arguments and its result
    \* ---- AddMessage transactions in flight
    txs,
    \* ---- SaveToStorage call in progress
    sv,
    \* ---- interceptor.Manager
    interceptors,  \* Manager.interceptors: endpoint -> method -> interceptor
    registered,    \* the RegisterInterceptor calls made so far, in order
    got,           \* the last GetInterceptor call, what it returned, and the
                   \* number of registrations it came after
    \* ---- a request in the OpenAI ChatInterceptor.RequestInterceptor
    chat,
    \* ---- a streamed response in the OpenAI ChatInterceptor.ChunkInterceptor
    sse,
    \* ---- one proxied request of a protocol interceptor: its two saveLog calls
    rq,
    \* ---- a streamed response in the Ollama interceptors' ChunkInterceptor
    oll

proxyVars == <<pc, intcptor, trace, running, hookErrs, resp, nread, buf, err, client>>
storeVars == <<conversations, branches, messages, last>>
mgrVars == <<interceptors, registered, got>>
vars == <<proxyVars, storeVars, txs, sv, mgrVars, chat, sse, rq, oll>>

(***************************************************************************)
(* Bounds of the model.                                                    *)
(***************************************************************************)
MaxChunks == 2
MaxMessages == 4
MaxConversations == 2
DeepMessages == 7
MaxTx == 2
TxMessages == 5
MaxHistory == 2
SaveMessages == 3
ChatHistory == 3
ChatMessages == 4
MaxRegistrations == 3
MaxMembers == 3
MaxFrames == 3
FindMessages == 3
RequestHistory == 2
RequestMessages == 4
MaxOllamaChunks == 3
RefusedMessages == 4

(***************************************************************************)
(*                              THE PROXY                                  *)
(***************************************************************************)
StatusCodes == {200, 404, 500}
StatusBadGateway == 502
\* resp.TransferEncoding as net/http reports it
TransferEncodings == {<<>>, <<"chunked">>}
\* http.Header: the values of each key, in the order they were added.
NoHeader == [key \in {} |-> <<>>]
Headers == {NoHeader, [key \in {"Set-Cookie"} |-> <<"a", "b">>]}
NoResp == [status |-> 0, te |-> <<>>, chunks |-> 0, failAfter |-> FALSE, header |-> NoHeader]
\* proxy.go:177  len(resp.TransferEncoding) > 0 && resp.TransferEncoding[0] == "chunked"
IsChunked(r) == Len(r.te) > 0 /\ r.te[1] = "chunked"
NoBuf == <<>>
Terminal == {"OnComplete", "OnError"}
HookNames == {"CreateState", "RequestInterceptor", "ResponseInterceptor",
              "ContentInterceptor", "ChunkInterceptor"} \cup Terminal

\* The upstream body: chunk i of n, as the upstream sent it.
Chunk(i) == [id |-> i, by |-> "upstream", resized |-> FALSE]
Body(n) == [i \in 1..n |-> Chunk(i)]

\* What a Content/ChunkInterceptor may hand back for data d.
HookResults == {"err", "same", "replaced", "resized"}

\* Mutant: the value is set, replacing the values the key has.
HeaderSet(h, key, value) ==
    [k \in DOMAIN h \cup {key} |-> IF k = key THEN <<value>> ELSE h[k]]

\* proxy.go:169  w.Header().Add(key, value)
HeaderAdd(h, key, value) ==
    [k \in DOMAIN h \cup {key} |->
        IF k # key THEN h[k]
        ELSE IF key \in DOMAIN h THEN Append(h[key], value) ELSE <<value>>]

\* proxy.go:167-171  for key, values := range resp.Header { for _, value := range values
RECURSIVE AddValues(_, _, _)
AddValues(h, key, values) ==
    IF values = <<>> THEN h
    ELSE AddValues(HeaderAdd(h, key, Head(values)), key, Tail(values))

RECURSIVE CopyHeader(_, _, _)
CopyHeader(h, from, keys) ==
    IF keys = {} THEN h
    ELSE LET key == CHOOSE k \in keys : TRUE
         IN CopyHeader(AddValues(h, key, from[key]), from, keys \ {key})

\* proxy.go:150  http.Error(w, "Upstream error", http.StatusBadGateway): the
\* content type of the error text, then the status and the text
HttpError(c) ==
    [c EXCEPT !.header = [k \in DOMAIN c.header \cup {"Content-Type", "X-Content-Type-Options"} |->
                             CASE k = "Content-Type" -> <<"text/plain; charset=utf-8">>
                               [] k = "X-Content-Type-Options" -> <<"nosniff">>
                               [] OTHER -> c.header[k]],
              !.status = Append(@, StatusBadGateway),
              !.body = Append(@, "Upstream error")]

\* Mutant: what the hook returned is used whether or not it returned an error.
ProcessedDespiteError(d, r) ==
    CASE r \in {"replaced", "err"} -> [i \in 1..Len(d) |-> [d[i] EXCEPT !.by = "hook"]]
      [] r = "resized"  -> [i \in 1..Len(d) |-> [d[i] EXCEPT !.by = "hook", !.resized = TRUE]]
      [] OTHER          -> d

Processed(d, r) ==
    CASE r = "replaced" -> [i \in 1..Len(d) |-> [d[i] EXCEPT !.by = "hook"]]
      [] r = "resized"  -> [i \in 1..Len(d) |-> [d[i] EXCEPT !.by = "hook", !.resized = TRUE]]
      [] OTHER          -> d

\* proxy.go:237, 266  ResponseWriter.Write(data): the proxy hands the bytes to
\* the writer and never calls Flush (loggingResponseWriter does not even
\* expose one).  The writer of net/http keeps what it is given in its buffer,
\* and sends the buffer on when it is full; client.flushed counts the writes
\* that have left the buffer.
Write(data) ==
    \E full \in BOOLEAN :
        client' = [client EXCEPT !.body = Append(@, data),
                                 !.flushed = IF full THEN Len(client.body) + 1 ELSE @]

\* A hook is entered: the call is logged and the hook is running.
CallHook(at, h) ==
    /\ pc = at
    /\ trace' = Append(trace, h)
    /\ running' = running \cup {h}
    /\ pc' = "in" \o h

\* Mutant: the hook is started without waiting for it (go hook(...)).
ReturnHookNotAwaited(h, failed, to) ==
    /\ pc = "in" \o h
    /\ running' = running
    /\ hookErrs' = IF failed THEN hookErrs \cup {<<h, nread>>} ELSE hookErrs
    /\ pc' = to

\* A hook returns, with or without an error, and control goes to `to`.
ReturnHook(h, failed, to) ==
    /\ pc = "in" \o h
    /\ running' = running \ {h}
    /\ hookErrs' = IF failed THEN hookErrs \cup {<<h, nread>>} ELSE hookErrs
    /\ pc' = to

ProxyInit ==
    /\ pc = "ServeHTTP"
    /\ intcptor = FALSE
    /\ trace = <<>>
    /\ running = {}
    /\ hookErrs = {}
    /\ resp = NoResp
    /\ nread = 0
    /\ buf = NoBuf
    /\ err = ""
    /\ client = [status |-> <<>>, body |-> <<>>, flushed |-> 0, header |-> NoHeader]

\* proxy.go:97-104  the registry lookup; CreateState only with an interceptor
GetInterceptor ==
    /\ pc = "ServeHTTP"
    /\ \E found \in BOOLEAN :
         /\ intcptor' = found
         /\ pc' = IF found THEN "CreateState" ELSE "ServeHTTP2"
    /\ UNCHANGED <<trace, running, hookErrs, resp, nread, buf, err, client>>

CreateStateCall ==
    /\ CallHook("CreateState", "CreateState")
    /\ UNCHANGED <<intcptor, hookErrs, resp, nread, buf, err, client>>

CreateStateReturn ==
    /\ ReturnHook("CreateState", FALSE, "ServeHTTP2")
    /\ UNCHANGED <<intcptor, trace, resp, nread, buf, err, client>>

\* proxy.go:140-145
RequestInterceptorCall ==
    /\ intcptor
    /\ CallHook("ServeHTTP2", "RequestInterceptor")
    /\ UNCHANGED <<intcptor, hookErrs, resp, nread, buf, err, client>>

RequestInterceptorSkip ==
    /\ pc = "ServeHTTP2"
    /\ ~intcptor
    /\ pc' = "Do"
    /\ UNCHANGED <<intcptor, trace, running, hookErrs, resp, nread, buf, err, client>>

RequestInterceptorReturn ==
    /\ \E failed \in BOOLEAN : ReturnHook("RequestInterceptor", failed, "Do")
    /\ UNCHANGED <<intcptor, trace, resp, nread, buf, err, client>>

\* Mutant: the return after http.Error is missing.
ClientDoWithoutReturn ==
    /\ pc = "Do"
    /\ trace' = Append(trace, "Dispatch")
    /\ \/ /\ client' = HttpError(client)
          /\ err' = "transport"
          /\ pc' = IF intcptor THEN "ResponseInterceptor" ELSE "WriteHeader"
          /\ resp' = resp
       \/ /\ \E s \in StatusCodes, t \in TransferEncodings, n \in 0..MaxChunks, f \in BOOLEAN,
                   h \in Headers :
                resp' = [status |-> s, te |-> t, chunks |-> n, failAfter |-> f, header |-> h]
          /\ pc' = IF intcptor THEN "ResponseInterceptor" ELSE "WriteHeader"
          /\ UNCHANGED <<client, err>>
    /\ UNCHANGED <<intcptor, running, hookErrs, nread, buf>>

\* proxy.go:147-152  Client.Do: a transport failure answers 502 and returns
\* the error; otherwise a response with some status, framing and body.
ClientDo ==
    /\ pc = "Do"
    /\ trace' = Append(trace, "Dispatch")
    /\ \/ /\ client' = HttpError(client)
          /\ err' = "transport"
          /\ pc' = "return"
          /\ resp' = resp
       \/ /\ \E s \in StatusCodes, t \in TransferEncodings, n \in 0..MaxChunks, f \in BOOLEAN,
                   h \in Headers :
                resp' = [status |-> s, te |-> t, chunks |-> n, failAfter |-> f, header |-> h]
          /\ pc' = IF intcptor THEN "ResponseInterceptor" ELSE "WriteHeader"
          /\ UNCHANGED <<client, err>>
    /\ UNCHANGED <<intcptor, running, hookErrs, nread, buf>>

\* proxy.go:159-164
ResponseInterceptorCall ==
    /\ CallHook("ResponseInterceptor", "ResponseInterceptor")
    /\ UNCHANGED <<intcptor, hookErrs, resp, nread, buf, err, client>>

ResponseInterceptorReturn ==
    /\ \E failed \in BOOLEAN : ReturnHook("ResponseInterceptor", failed, "WriteHeader")
    /\ UNCHANGED <<intcptor, trace, resp, nread, buf, err, client>>

\* Mutant: the framing is not consulted, every body is buffered.
WriteHeaderAlwaysBuffered ==
    /\ pc = "WriteHeader"
    /\ client' = [client EXCEPT !.header = CopyHeader(client.header, resp.header, DOMAIN resp.header),
                             !.status = Append(@, resp.status)]
    /\ pc' = "ReadAll"
    /\ UNCHANGED <<intcptor, trace, running, hookErrs, resp, nread, buf, err>>

\* proxy.go:166-190  headers and status go out, then the framing decides
WriteHeader ==
    /\ pc = "WriteHeader"
    /\ client' = [client EXCEPT !.header = CopyHeader(client.header, resp.header, DOMAIN resp.header),
                             !.status = Append(@, resp.status)]
    /\ pc' = IF IsChunked(resp) THEN "CopyRead" ELSE "ReadAll"
    /\ UNCHANGED <<intcptor, trace, running, hookErrs, resp, nread, buf, err>>

\* proxy.go:220-234  io.ReadAll, then ContentInterceptor when there is one
ReadAll ==
    /\ pc = "ReadAll"
    /\ IF resp.failAfter
         THEN /\ err' = "read"
              /\ pc' = "return"
              /\ UNCHANGED <<buf, nread>>
         ELSE /\ buf' = Body(resp.chunks)
              /\ nread' = resp.chunks
              /\ pc' = IF intcptor THEN "ContentInterceptor" ELSE "WriteBody"
              /\ err' = err
    /\ UNCHANGED <<intcptor, trace, running, hookErrs, resp, client>>

ContentInterceptorCall ==
    /\ CallHook("ContentInterceptor", "ContentInterceptor")
    /\ UNCHANGED <<intcptor, hookErrs, resp, nread, buf, err, client>>

ContentInterceptorReturn ==
    /\ \E r \in HookResults :
         /\ ReturnHook("ContentInterceptor", r = "err", "WriteBody")
         /\ buf' = Processed(buf, r)
    /\ UNCHANGED <<intcptor, trace, resp, nread, err, client>>

\* proxy.go:236-243
WriteBody ==
    /\ pc = "WriteBody"
    /\ \E ok \in BOOLEAN :
         IF ok THEN /\ Write(buf)
                    /\ pc' = "CheckStatus"
                    /\ err' = err
               ELSE /\ err' = "write"
                    /\ pc' = "return"
                    /\ client' = client
    /\ UNCHANGED <<intcptor, trace, running, hookErrs, resp, nread, buf>>

\* proxy.go:201-217  io.Copy(chunkWriter, resp.Body): one Read
CopyRead ==
    /\ pc = "CopyRead"
    /\ IF nread < resp.chunks
         THEN /\ buf' = <<Chunk(nread + 1)>>
              /\ nread' = nread + 1
              /\ pc' = IF intcptor THEN "ChunkInterceptor" ELSE "ChunkWrite"
              /\ err' = err
         ELSE /\ err' = IF resp.failAfter THEN "read" ELSE err
              /\ pc' = IF resp.failAfter THEN "return" ELSE "CheckStatus"
              /\ UNCHANGED <<buf, nread>>
    /\ UNCHANGED <<intcptor, trace, running, hookErrs, resp, client>>

\* proxy.go:254-263  chunkWriter.Write hands the chunk to ChunkInterceptor
ChunkInterceptorCall ==
    /\ CallHook("ChunkInterceptor", "ChunkInterceptor")
    /\ UNCHANGED <<intcptor, hookErrs, resp, nread, buf, err, client>>

ChunkInterceptorReturn ==
    /\ \E r \in HookResults :
         /\ ReturnHook("ChunkInterceptor", r = "err", "ChunkWrite")
         /\ buf' = Processed(buf, r)
    /\ UNCHANGED <<intcptor, trace, resp, nread, err, client>>

\* Mutant: a failed write is answered with http.Error, as a failed dispatch is.
ChunkWriteAnswersError ==
    /\ pc = "ChunkWrite"
    /\ \E ok \in BOOLEAN :
         IF ok THEN /\ Write(buf)
                    /\ err' = IF buf[1].resized THEN "short write" ELSE err
                    /\ pc' = IF buf[1].resized THEN "return" ELSE "CopyRead"
               ELSE /\ err' = "write"
                    /\ pc' = "return"
                    /\ client' = HttpError(client)
    /\ UNCHANGED <<intcptor, trace, running, hookErrs, resp, nread, buf>>

\* proxy.go:265-266 and io.Copy's check of the count Write returned
ChunkWrite ==
    /\ pc = "ChunkWrite"
    /\ \E ok \in BOOLEAN :
         IF ok THEN /\ Write(buf)
                    /\ err' = IF buf[1].resized THEN "short write" ELSE err
                    /\ pc' = IF buf[1].resized THEN "return" ELSE "CopyRead"
               ELSE /\ err' = "write"
                    /\ pc' = "return"
                    /\ client' = client
    /\ UNCHANGED <<intcptor, trace, running, hookErrs, resp, nread, buf>>

\* Mutant: the status of the response is not looked at.
CheckStatusIgnored ==
    /\ pc = "CheckStatus"
    /\ err' = err
    /\ pc' = "return"
    /\ UNCHANGED <<intcptor, trace, running, hookErrs, resp, nread, buf, client>>

\* proxy.go:192-197
CheckStatus ==
    /\ pc = "CheckStatus"
    /\ err' = IF resp.status >= 400 THEN "status" ELSE err
    /\ pc' = "return"
    /\ UNCHANGED <<intcptor, trace, running, hookErrs, resp, nread, buf, client>>

\* proxy.go:106-114  ServeHTTP after ServeHTTP2 returned
OnTerminalCall ==
    /\ intcptor
    /\ CallHook("return", IF err # "" THEN "OnError" ELSE "OnComplete")
    /\ UNCHANGED <<intcptor, hookErrs, resp, nread, buf, err, client>>

\* Mutant: an early return on a transport failure, before the terminal hook.
OnTerminalSkipOnTransportError ==
    /\ pc = "return"
    /\ (~intcptor \/ err = "transport")
    /\ pc' = "log"
    /\ UNCHANGED <<intcptor, trace, running, hookErrs, resp, nread, buf, err, client>>

OnTerminalSkip ==
    /\ pc = "return"
    /\ ~intcptor
    /\ pc' = "log"
    /\ UNCHANGED <<intcptor, trace, running, hookErrs, resp, nread, buf, err, client>>

OnTerminalReturn ==
    /\ \E h \in Terminal : ReturnHook(h, FALSE, "log")
    /\ UNCHANGED <<intcptor, trace, resp, nread, buf, err, client>>

\* proxy.go:116-123  the access log is the last statement of ServeHTTP; when
\* the handler returns, net/http sends what is left in the writer's buffer.
AccessLog ==
    /\ pc = "log"
    /\ pc' = "done"
    /\ client' = [client EXCEPT !.flushed = Len(client.body)]
    /\ UNCHANGED <<intcptor, trace, running, hookErrs, resp, nread, buf, err>>

\* The proxy touches neither the store nor a save in progress.
ProxyFrame == UNCHANGED <<storeVars, txs, sv, mgrVars, chat, sse, rq, oll>>

ProxyNext ==
    \/ GetInterceptor /\ ProxyFrame
    \/ CreateStateCall /\ ProxyFrame
    \/ CreateStateReturn /\ ProxyFrame
    \/ RequestInterceptorCall /\ ProxyFrame
    \/ RequestInterceptorSkip /\ ProxyFrame
    \/ RequestInterceptorReturn /\ ProxyFrame
    \/ ClientDo /\ ProxyFrame
    \/ ResponseInterceptorCall /\ ProxyFrame
    \/ ResponseInterceptorReturn /\ ProxyFrame
    \/ WriteHeader /\ ProxyFrame
    \/ ReadAll /\ ProxyFrame
    \/ ContentInterceptorCall /\ ProxyFrame
    \/ ContentInterceptorReturn /\ ProxyFrame
    \/ WriteBody /\ ProxyFrame
    \/ CopyRead /\ ProxyFrame
    \/ ChunkInterceptorCall /\ ProxyFrame
    \/ ChunkInterceptorReturn /\ ProxyFrame
    \/ ChunkWrite /\ ProxyFrame
    \/ CheckStatus /\ ProxyFrame
    \/ OnTerminalCall /\ ProxyFrame
    \/ OnTerminalSkip /\ ProxyFrame
    \/ OnTerminalReturn /\ ProxyFrame
    \/ AccessLog /\ ProxyFrame

(***************************************************************************)
(*                              THE STORE                                  *)
(* conversations, branches and messages are the tables of schema.sql; the  *)
(* id of a row is its position, in the order the rows were committed.      *)
(* Nil is uuid.Nil in Go and NULL in a column.                             *)
(***************************************************************************)
Nil == 0
RequestTypes == {"chat", "generate"}

\* The digest, taken to be injective and of fixed width: the hex string of
\* SHA-256 is written as its bracketed preimage, so two digests are equal iff
\* the hashed byte strings are, and a digest followed by more bytes splits
\* in one way only.
Digest(bytes) == "[" \o bytes \o "]"

\* Mutant: a separator between the three parts.
computeHashSeparated(prevHash, role, content) ==
    Digest(prevHash \o "|" \o role \o "|" \o content)

\* part_014:625-631  h.Write(prevHash); h.Write(role); h.Write(content)
computeHash(prevHash, role, content) == Digest(prevHash \o role \o content)

\* part_014:615-621
RECURSIVE computeHistoryHashFrom(_, _)
computeHistoryHashFrom(currentHash, history) ==
    IF history = <<>> THEN currentHash
    ELSE computeHistoryHashFrom(
             computeHash(currentHash, Head(history).role, Head(history).content),
             Tail(history))
computeHistoryHash(history) == computeHistoryHashFrom("", history)

\* part_014:165  SELECT EXISTS(SELECT 1 FROM messages WHERE parent_message_id = $1)
HasChildren(msgs, parent) ==
    \E i \in DOMAIN msgs : msgs[i].parent_message_id = parent

\* Mutant: the fork forgets the fork point.
ForkBranchWithoutMessage(brs, parentBranch, parent) ==
    [conversation_id |-> brs[parentBranch].conversation_id,
     parent_branch_id |-> parentBranch,
     parent_message_id |-> Nil]

\* part_014:173-176  INSERT INTO branches (conversation_id, parent_branch_id,
\* parent_message_id) VALUES ((SELECT conversation_id FROM branches WHERE id = $1), $1, $2)
ForkBranch(brs, parentBranch, parent) ==
    [conversation_id |-> brs[parentBranch].conversation_id,
     parent_branch_id |-> parentBranch,
     parent_message_id |-> parent]

\* Mutant: the fork is not entered in the parent's child-branch list.
ChildBranchNotAppended(msgs, parent, newBranchID) == msgs

\* part_014:181-187  UPDATE messages SET child_branch_ids =
\* array_append(child_branch_ids, $1) WHERE id = $2
AppendChildBranch(msgs, parent, newBranchID) ==
    [msgs EXCEPT ![parent].child_branch_ids = Append(@, newBranchID)]

\* schema.sql:47  UNIQUE (branch_id, sequence_number)
UniqueViolation(msgs, branch, seq) ==
    \E i \in DOMAIN msgs : msgs[i].branch_id = branch /\ msgs[i].sequence_number = seq

\* part_014:214-217  the row INSERT INTO messages writes
MessageRow(brs, branch, m, seq, hash, parent) ==
    [conversation_id |-> brs[branch].conversation_id,
     branch_id |-> branch,
     role |-> m.role,
     content |-> m.content,
     sequence_number |-> seq,
     cumulative_hash |-> hash,
     parent_message_id |-> parent,
     child_branch_ids |-> <<>>,
     upstream_status_code |-> m.status]

Failed(msgs, brs) == [ok |-> FALSE, messages |-> msgs, branches |-> brs, id |-> Nil]

\* schema.sql:29  role VARCHAR(50) NOT NULL: a longer value fails the INSERT
RoleLimit == 50
TooLong(role) == Len(role) > RoleLimit

\* Mutant: a failed INSERT returns the error and the transaction's earlier
\* statements stay.
InsertMessageWithoutRollback(msgs0, msgs, brs0, brs, branch, lastHash, lastSeq, parent, m) ==
    IF branch \notin DOMAIN brs \/ UniqueViolation(msgs, branch, lastSeq + 1)
          \/ TooLong(m.role)
      THEN [ok |-> FALSE, messages |-> msgs, branches |-> brs, id |-> Nil]
      ELSE [ok |-> TRUE,
            messages |-> Append(msgs, MessageRow(brs, branch, m, lastSeq + 1,
                                   computeHash(lastHash, m.role, m.content), parent)),
            branches |-> brs,
            id |-> Len(msgs) + 1]

\* Mutant: the message is numbered after the rows the branch holds already.
InsertMessageAfterRows(msgs0, msgs, brs0, brs, branch, lastHash, lastSeq, parent, m) ==
    LET rows == Cardinality({i \in DOMAIN msgs : msgs[i].branch_id = branch})
        seq == IF parent = Nil THEN rows + 1 ELSE lastSeq + 1
    IN IF branch \notin DOMAIN brs \/ UniqueViolation(msgs, branch, seq) \/ TooLong(m.role)
         THEN [ok |-> FALSE, messages |-> msgs0, branches |-> brs0, id |-> Nil]
         ELSE [ok |-> TRUE,
               messages |-> Append(msgs, MessageRow(brs, branch, m, seq,
                                      computeHash(lastHash, m.role, m.content), parent)),
               branches |-> brs,
               id |-> Len(msgs) + 1]

\* part_014:205-228  nextSeq, newHash, the INSERT and the commit; an INSERT that
\* fails (unknown branch: conversation_id is NULL; a taken (branch, sequence
\* number)) rolls the whole transaction back.
InsertMessage(msgs0, msgs, brs0, brs, branch, lastHash, lastSeq, parent, m) ==
    IF branch \notin DOMAIN brs \/ UniqueViolation(msgs, branch, lastSeq + 1)
          \/ TooLong(m.role)
      THEN Failed(msgs0, brs0)
      ELSE [ok |-> TRUE,
            messages |-> Append(msgs, MessageRow(brs, branch, m, lastSeq + 1,
                                   computeHash(lastHash, m.role, m.content), parent)),
            branches |-> brs,
            id |-> Len(msgs) + 1]

\* part_014:140-231  AddMessage as one transaction on tables (msgs, brs):
\* the tables after it, whether it committed, and the id of the new message.
AddMessageResult(msgs, brs, parent, m) ==
    IF parent # Nil
      THEN IF parent \notin DOMAIN msgs
             THEN Failed(msgs, brs)                      \* sql.ErrNoRows
             ELSE LET p == msgs[parent]
                  IN IF HasChildren(msgs, parent)
                       THEN LET newBranchID == Len(brs) + 1
                                brs2 == Append(brs, ForkBranch(brs, p.branch_id, parent))
                                msgs2 == AppendChildBranch(msgs, parent, newBranchID)
                            IN InsertMessage(msgs, msgs2, brs, brs2, newBranchID,
                                             p.cumulative_hash, p.sequence_number, parent, m)
                       ELSE InsertMessage(msgs, msgs, brs, brs, p.branch_id,
                                          p.cumulative_hash, p.sequence_number, parent, m)
      ELSE IF m.branch_id = Nil
             THEN Failed(msgs, brs)                      \* "branchID is required ..."
             ELSE InsertMessage(msgs, msgs, brs, brs, m.branch_id, "", 0, Nil, m)

\* part_014:75-114  CreateConversation: the conversation and its root branch
CreateConversation(requestType) ==
    /\ conversations' = Append(conversations, [request_type |-> requestType])
    /\ branches' = Append(branches, [conversation_id |-> Len(conversations) + 1,
                                     parent_branch_id |-> Nil,
                                     parent_message_id |-> Nil])
    /\ messages' = messages
    /\ last' = [op |-> "CreateConversation", parent |-> Nil, branch |-> Len(branches) + 1,
                ok |-> TRUE, id |-> Len(conversations) + 1, nbranches |-> Len(branches)]

\* part_014:140-231  one AddMessage call
AddMessage(parent, m) ==
    LET r == AddMessageResult(messages, branches, parent, m)
    IN /\ messages' = r.messages
       /\ branches' = r.branches
       /\ conversations' = conversations
       /\ last' = [op |-> "AddMessage", parent |-> parent, branch |-> m.branch_id,
                   ok |-> r.ok, id |-> r.id, nbranches |-> Len(branches)]

\* part_014:235-250  the recursive CTE branch_path: the branch, its parent, ...
RECURSIVE BranchPath(_)
BranchPath(b) ==
    IF branches[b].parent_branch_id = Nil THEN <<b>>
    ELSE <<b>> \o BranchPath(branches[b].parent_branch_id)

\* part_014:245-249  the rows the query selects: every message of the branch
\* itself, and of the ancestor at level l those numbered up to the fork point
\* of the branch at level l - 1.
HistoryRows(b) ==
    LET bp == BranchPath(b)
    IN {i \in DOMAIN messages :
          \E l \in DOMAIN bp :
             /\ messages[i].branch_id = bp[l]
             /\ \/ l = 1
                \/ /\ branches[bp[l - 1]].parent_message_id # Nil
                   /\ messages[i].sequence_number <=
                        messages[branches[bp[l - 1]].parent_message_id].sequence_number}

\* part_014:250  ORDER BY m.sequence_number ASC: rows of equal sequence number
\* come in an order the database chooses.
RECURSIVE OrderBySequenceNumber(_)
OrderBySequenceNumber(rows) ==
    IF rows = {} THEN {<<>>}
    ELSE LET first == {i \in rows : \A j \in rows :
                          messages[i].sequence_number <= messages[j].sequence_number}
         IN UNION {{<<i>> \o t : t \in OrderBySequenceNumber(rows \ {i})} : i \in first}

\* part_014:235-261  GetBranchHistory: the results the query may return
GetBranchHistory(b) == OrderBySequenceNumber(HistoryRows(b))

StoreInit ==
    /\ conversations = <<>>
    /\ branches = <<>>
    /\ messages = <<>>
    /\ last = [op |-> "none", parent |-> Nil, branch |-> Nil, ok |-> TRUE, id |-> Nil,
               nbranches |-> 0]

\* What callers of the store pass as role and content.
Payloads == {[role |-> "user", content |-> "x"],
             [role |-> "u", content |-> "serx"]}
Message(pl, branch) ==
    [role |-> pl.role, content |-> pl.content, branch_id |-> branch, status |-> 0]

StoreFrame == UNCHANGED <<proxyVars, txs, sv, mgrVars, chat, sse, rq, oll>>

StoreCreateConversation ==
    /\ Len(conversations) < MaxConversations
    /\ \E t \in RequestTypes : CreateConversation(t)

\* AddMessage under a parent message (message.BranchID is not read then)
AddUnderParent(limit, pls) ==
    /\ Len(messages) < limit
    /\ \E parent \in DOMAIN messages, pl \in pls : AddMessage(parent, Message(pl, Nil))

\* AddMessage without a parent message, with or without a branch id
AddToBranch(limit, pls) ==
    /\ Len(messages) < limit
    /\ \E b \in {Nil} \cup DOMAIN branches, pl \in pls : AddMessage(Nil, Message(pl, b))

StoreNext ==
    \/ StoreCreateConversation /\ StoreFrame
    \/ AddUnderParent(MaxMessages, Payloads) /\ StoreFrame
    \/ AddToBranch(MaxMessages, Payloads) /\ StoreFrame

\* The same calls with a message the messages table refuses among them: its
\* role has 51 characters.
LongRole == "assistant-assistant-assistant-assistant-assistant-x"
RefusedPayloads == {[role |-> "user", content |-> "x"], [role |-> LongRole, content |-> "x"]}

RefusedNext ==
    \/ StoreCreateConversation /\ StoreFrame
    \/ AddUnderParent(RefusedMessages, RefusedPayloads) /\ StoreFrame
    \/ AddToBranch(RefusedMessages, RefusedPayloads) /\ StoreFrame

\* The same calls on one conversation with one payload, for longer runs.
DeepPayloads == {[role |-> "user", content |-> "x"]}

DeepCreateConversation ==
    /\ conversations = <<>>
    /\ CreateConversation("chat")

DeepNext ==
    \/ DeepCreateConversation /\ StoreFrame
    \/ AddUnderParent(DeepMessages, DeepPayloads) /\ StoreFrame
    \/ AddToBranch(DeepMessages, DeepPayloads) /\ StoreFrame

(***************************************************************************)
(*                  ADDMESSAGE, STATEMENT BY STATEMENT                     *)
(* Each AddMessage call is a transaction of its own connection (BeginTx    *)
(* with nil options: the server's default, READ COMMITTED): every          *)
(* statement reads what is committed when it runs, an INSERT that meets an *)
(* uncommitted row with its unique key waits for that transaction to end,  *)
(* and the UPDATE of the parent row holds the row's lock until the end.    *)
(***************************************************************************)
Tx == 1..MaxTx
NoRow == [branch |-> Nil]
IdleTx == [pc |-> "idle", parent |-> Nil, m |-> Message([role |-> "", content |-> ""], Nil),
           branchID |-> Nil, lastHash |-> "", lastSeq |-> 0, hasChildren |-> FALSE,
           forked |-> FALSE, locked |-> FALSE, row |-> NoRow, ok |-> FALSE, id |-> Nil,
           childless |-> FALSE, peers |-> {}]
Active(t) == txs[t].pc \notin {"idle", "done"}
NewBranch == -1      \* the branch this transaction inserted and has not committed

TxInit == txs = [t \in Tx |-> IdleTx]

\* part_014:141  BeginTx
TxBegin(t, parent, m) ==
    /\ ~Active(t)
    /\ Len(messages) + Cardinality({u \in Tx : Active(u)}) < TxMessages
    /\ txs' = [u \in Tx |->
                 IF u = t
                   THEN [IdleTx EXCEPT !.pc = "selectParent", !.parent = parent, !.m = m,
                                       !.childless = ~HasChildren(messages, parent),
                                       !.peers = {v \in Tx \ {t} : Active(v)}]
                   ELSE IF Active(u) THEN [txs[u] EXCEPT !.peers = @ \cup {t}] ELSE txs[u]]
    /\ UNCHANGED <<conversations, branches, messages, last>>

\* The transaction ends with an error: the deferred Rollback drops its writes.
Rollback(t) == [txs[t] EXCEPT !.pc = "done", !.ok = FALSE, !.row = NoRow,
                              !.forked = FALSE, !.locked = FALSE]

\* part_014:153-161 and 192-203  the parent row, or the caller's branch
TxSelectParent(t) ==
    /\ txs[t].pc = "selectParent"
    /\ LET x == txs[t]
       IN txs' = [txs EXCEPT ![t] =
                 IF x.parent # Nil
                   THEN IF x.parent \in DOMAIN messages
                          THEN [x EXCEPT !.pc = "selectChildren",
                                         !.branchID = messages[x.parent].branch_id,
                                         !.lastHash = messages[x.parent].cumulative_hash,
                                         !.lastSeq = messages[x.parent].sequence_number]
                          ELSE Rollback(t)
                   ELSE IF x.m.branch_id = Nil
                          THEN Rollback(t)
                          ELSE [x EXCEPT !.pc = "insertMessage", !.branchID = x.m.branch_id]]
    /\ UNCHANGED <<conversations, branches, messages, last>>

\* part_014:163-168  the EXISTS query sees committed rows only
TxSelectChildren(t) ==
    /\ txs[t].pc = "selectChildren"
    /\ LET found == HasChildren(messages, txs[t].parent)
       IN txs' = [txs EXCEPT ![t] =
                    [@ EXCEPT !.hasChildren = found,
                              !.pc = IF found THEN "insertBranch" ELSE "insertMessage"]]
    /\ UNCHANGED <<conversations, branches, messages, last>>

\* part_014:170-179  INSERT INTO branches
TxInsertBranch(t) ==
    /\ txs[t].pc = "insertBranch"
    /\ txs' = [txs EXCEPT ![t] = [@ EXCEPT !.forked = TRUE, !.pc = "updateParent"]]
    /\ UNCHANGED <<conversations, branches, messages, last>>

\* part_014:181-190  UPDATE messages SET child_branch_ids = array_append(...):
\* waits while another transaction holds the parent row's lock
TxUpdateParent(t) ==
    /\ txs[t].pc = "updateParent"
    /\ ~\E u \in Tx \ {t} : txs[u].locked /\ txs[u].parent = txs[t].parent
    /\ txs' = [txs EXCEPT ![t] = [@ EXCEPT !.locked = TRUE, !.branchID = NewBranch,
                                           !.pc = "insertMessage"]]
    /\ UNCHANGED <<conversations, branches, messages, last>>

\* part_014:205-221  INSERT INTO messages under UNIQUE (branch_id, sequence_number):
\* waits for an uncommitted row with the same key, fails on a committed one
TxInsertMessage(t) ==
    /\ txs[t].pc = "insertMessage"
    /\ LET branch == txs[t].branchID
           seq == txs[t].lastSeq + 1
       IN /\ branch = NewBranch \/
                ~\E u \in Tx \ {t} : txs[u].row = [branch |-> branch, seq |-> seq]
          /\ txs' = [txs EXCEPT ![t] =
                       IF branch # NewBranch /\
                            (branch \notin DOMAIN branches \/ UniqueViolation(messages, branch, seq))
                         THEN Rollback(t)
                         ELSE [@ EXCEPT !.row = [branch |-> branch, seq |-> seq],
                                        !.pc = "commit"]]
    /\ UNCHANGED <<conversations, branches, messages, last>>

\* part_014:226-230  Commit: the transaction's rows become visible
TxCommit(t) ==
    /\ txs[t].pc = "commit"
    /\ LET x == txs[t]
           brs == IF x.forked
                    THEN Append(branches, ForkBranch(branches, messages[x.parent].branch_id, x.parent))
                    ELSE branches
           branch == IF x.forked THEN Len(brs) ELSE x.branchID
           msgs == IF x.forked
                     THEN AppendChildBranch(messages, x.parent, branch)
                     ELSE messages
       IN /\ branches' = brs
          /\ messages' = Append(msgs, MessageRow(brs, branch, x.m, x.lastSeq + 1,
                                   computeHash(x.lastHash, x.m.role, x.m.content), x.parent))
          /\ txs' = [txs EXCEPT ![t] = [@ EXCEPT !.pc = "done", !.ok = TRUE, !.row = NoRow,
                                                 !.locked = FALSE, !.id = Len(messages) + 1]]
    /\ UNCHANGED <<conversations, last>>

TxCreateConversation ==
    /\ conversations = <<>>
    /\ CreateConversation("chat")
    /\ UNCHANGED txs

TxFrame == UNCHANGED <<proxyVars, sv, mgrVars, chat, sse, rq, oll>>

TxNext ==
    \/ TxCreateConversation /\ TxFrame
    \/ (\E t \in Tx, parent \in DOMAIN messages, pl \in DeepPayloads :
           TxBegin(t, parent, Message(pl, Nil))) /\ TxFrame
    \/ (\E t \in Tx, b \in {Nil} \cup DOMAIN branches, pl \in DeepPayloads :
           TxBegin(t, Nil, Message(pl, b))) /\ TxFrame
    \/ (\E t \in Tx : TxSelectParent(t)) /\ TxFrame
    \/ (\E t \in Tx : TxSelectChildren(t)) /\ TxFrame
    \/ (\E t \in Tx : TxInsertBranch(t)) /\ TxFrame
    \/ (\E t \in Tx : TxUpdateParent(t)) /\ TxFrame
    \/ (\E t \in Tx : TxInsertMessage(t)) /\ TxFrame
    \/ (\E t \in Tx : TxCommit(t)) /\ TxFrame

(***************************************************************************)
(*                          THE SAVING MIXIN                               *)
(* SavingInterceptor.SaveToStorage, one store call per step. A store call  *)
(* may also fail for reasons of its own (connection, deadline).            *)
(***************************************************************************)
\* Mutant: ORDER BY m.created_at ASC, the oldest match instead of the latest.
FindOldestMessageByHistory(history, requestType) ==
    IF Len(history) = 0 THEN Nil
    ELSE LET currentHash == computeHistoryHash(history)
             found == {i \in DOMAIN messages :
                          /\ messages[i].cumulative_hash = currentHash
                          /\ conversations[messages[i].conversation_id].request_type = requestType}
         IN IF found = {} THEN Nil
            ELSE CHOOSE i \in found : \A j \in found : i <= j

\* Mutant: the lookup hashes the last message of the history alone.
FindMessageByLastMessage(history, requestType) ==
    IF Len(history) = 0 THEN Nil
    ELSE LET currentHash == computeHistoryHash(<<history[Len(history)]>>)
             found == {i \in DOMAIN messages :
                          /\ messages[i].cumulative_hash = currentHash
                          /\ conversations[messages[i].conversation_id].request_type = requestType}
         IN IF found = {} THEN Nil
            ELSE CHOOSE i \in found : \A j \in found : j <= i

\* Mutant: the lookup does not join the conversation's request type.
FindMessageOfAnyType(history, requestType) ==
    IF Len(history) = 0 THEN Nil
    ELSE LET currentHash == computeHistoryHash(history)
             found == {i \in DOMAIN messages : messages[i].cumulative_hash = currentHash}
         IN IF found = {} THEN Nil
            ELSE CHOOSE i \in found : \A j \in found : j <= i

\* part_014:265-284  FindMessageByHistory: ORDER BY m.created_at DESC LIMIT 1
FindMessageByHistory(history, requestType) ==
    IF Len(history) = 0 THEN Nil
    ELSE LET currentHash == computeHistoryHash(history)
             found == {i \in DOMAIN messages :
                          /\ messages[i].cumulative_hash = currentHash
                          /\ conversations[messages[i].conversation_id].request_type = requestType}
         IN IF found = {} THEN Nil
            ELSE CHOOSE i \in found : \A j \in found : j <= i

\* Mutant: the tail replay starts over from the first history message.
ReplayFromStart(curLen) == 1

\* saving_interceptor.go:73  history[len(curHistory):], 1-based
ReplayFrom(curLen) == curLen + 1

\* saving_interceptor.go:87
HasAssistant(assistantMsg, statusCode) ==
    assistantMsg.content # "" \/ assistantMsg.toolCalls > 0 \/ statusCode # 0

AssistantMsg(content, toolCalls) ==
    [role |-> "assistant", content |-> content, toolCalls |-> toolCalls]

\* The arguments and the outcome of the SaveToStorage call that returned
\* last: what a caller knows of it when it calls again.
NoSave == [history |-> <<>>, assistantMsg |-> AssistantMsg("", 0), statusCode |-> 0,
           requestType |-> "", assistant |-> Nil, failed |-> TRUE]
Returned(s) == [history |-> s.history, assistantMsg |-> s.assistantMsg,
                statusCode |-> s.statusCode, requestType |-> s.requestType,
                assistant |-> s.assistant, failed |-> s.failed]

IdleSave == [pc |-> "idle", history |-> <<>>, assistantMsg |-> AssistantMsg("", 0),
             statusCode |-> 0, requestType |-> "",
             curLen |-> 0, currentParentID |-> Nil, currentBranchID |-> Nil, i |-> 0,
             finds |-> <<>>, stored |-> 0, created |-> Nil, added |-> <<>>,
             assistant |-> Nil, failed |-> FALSE, prev |-> NoSave]

\* Mutant: the error is logged and the run goes on to the assistant message.
SaveFailedGoesOn == [IdleSave EXCEPT !.pc = "assistant", !.failed = TRUE]

\* A store call failed: the error is logged and SaveToStorage returns.
SaveFailed == [IdleSave EXCEPT !.pc = "done", !.failed = TRUE]

SaveInit == sv = IdleSave

\* What the protocol interceptors hand to SaveToStorage.
HistoryPayloads == {[role |-> "system", content |-> "s"],
                    [role |-> "user", content |-> "x"],
                    [role |-> "assistant", content |-> "a"]}
Histories == UNION {[1..n -> HistoryPayloads] : n \in 0..MaxHistory}
\* The assistant message and status code of a response: nothing at all, a
\* status only, tool calls only, content only.
Responses == {<<AssistantMsg("", 0), 0>>, <<AssistantMsg("", 0), 200>>,
              <<AssistantMsg("", 1), 0>>, <<AssistantMsg("a", 0), 0>>}

\* The number of history messages a save that meets no failure adds to the
\* store as it is now; it keeps the tables within SaveMessages rows.
SaveAppends(history, requestType) ==
    LET found == {k \in 1..Len(history) :
                     FindMessageByHistory(SubSeq(history, 1, k), requestType) # Nil}
        longest == IF found = {} THEN 0 ELSE CHOOSE k \in found : \A j \in found : j <= k
        reused == IF longest = 1 /\ history[1].role = "system" THEN 0 ELSE longest
    IN Len(history) - reused

\* saving_interceptor.go:20-29  SaveToStorage is entered. assistantMsg and
\* statusCode are not read before line 87 (but for the model name, which goes
\* into the conversation's metadata): their values are drawn there.
SaveEnter(limit, history, requestType) ==
    /\ sv.pc = "idle"
    /\ Len(messages) + SaveAppends(history, requestType) <= limit
    /\ Len(conversations) < MaxConversations
    /\ sv' = [IdleSave EXCEPT !.pc = "find", !.history = history,
                              !.requestType = requestType, !.curLen = Len(history),
                              !.stored = Len(messages), !.prev = sv.prev]
    /\ UNCHANGED storeVars

SaveToStorage(history, requestType) == SaveEnter(SaveMessages, history, requestType)

\* Mutant: a matching system message is reused like any other match.
SystemOnlyReused(curHistory) == FALSE

\* saving_interceptor.go:39  len(curHistory) == 1 && curHistory[0].Role == "system"
SystemOnly(curHistory) == Len(curHistory) = 1 /\ curHistory[1].role = "system"

\* saving_interceptor.go:30-53  one turn of the prefix loop
SaveFind ==
    /\ sv.pc = "find"
    /\ IF sv.curLen = 0
         THEN sv' = [sv EXCEPT !.pc = "create"]
         ELSE \/ sv' = SaveFailed
              \/ LET pid == FindMessageByHistory(SubSeq(sv.history, 1, sv.curLen), sv.requestType)
                     log == Append(sv.finds, [len |-> sv.curLen, pid |-> pid])
                 IN sv' =
                      IF pid # Nil
                        THEN IF SystemOnly(SubSeq(sv.history, 1, sv.curLen))
                               THEN [sv EXCEPT !.finds = log, !.currentParentID = Nil,
                                               !.curLen = 0, !.pc = "create"]
                               ELSE [sv EXCEPT !.finds = log, !.currentParentID = pid,
                                               !.pc = "create"]
                        ELSE [sv EXCEPT !.finds = log, !.curLen = sv.curLen - 1,
                                        !.pc = IF sv.curLen - 1 <= 0 THEN "create" ELSE "find"]
    /\ UNCHANGED storeVars

\* Mutant: a conversation is created whether or not a prefix matched.
NeedsConversationAlways(currentParentID) == TRUE

\* saving_interceptor.go:55  if currentParentID == uuid.Nil
NeedsConversation(currentParentID) == currentParentID = Nil

\* saving_interceptor.go:55-70
SaveCreate ==
    /\ sv.pc = "create"
    /\ IF NeedsConversation(sv.currentParentID)
         THEN \/ /\ sv' = SaveFailed
                 /\ UNCHANGED storeVars
              \/ /\ CreateConversation(sv.requestType)
                 /\ sv' = [sv EXCEPT !.pc = "replay", !.i = ReplayFrom(sv.curLen),
                                     !.created = Len(conversations) + 1,
                                     !.currentBranchID = Len(branches) + 1]
         ELSE /\ sv' = [sv EXCEPT !.pc = "replay", !.i = ReplayFrom(sv.curLen)]
              /\ UNCHANGED storeVars

\* Mutant: every tail message is added under the matched message.
SaveReplayUnderMatch ==
    /\ sv.pc = "replay"
    /\ IF sv.i > Len(sv.history)
         THEN /\ sv' = [sv EXCEPT !.pc = "assistant"]
              /\ UNCHANGED storeVars
         ELSE LET m == [role |-> sv.history[sv.i].role, content |-> sv.history[sv.i].content,
                        branch_id |-> sv.currentBranchID, status |-> 0]
                  r == AddMessageResult(messages, branches, sv.currentParentID, m)
              IN \/ /\ sv' = SaveFailed
                    /\ UNCHANGED storeVars
                 \/ /\ AddMessage(sv.currentParentID, m)
                    /\ sv' = IF r.ok
                               THEN [sv EXCEPT !.currentBranchID = Nil,
                                               !.added = Append(@, r.id), !.i = sv.i + 1]
                               ELSE SaveFailed

\* saving_interceptor.go:72-84  one turn of the tail replay
SaveReplay ==
    /\ sv.pc = "replay"
    /\ IF sv.i > Len(sv.history)
         THEN /\ sv' = [sv EXCEPT !.pc = "assistant"]
              /\ UNCHANGED storeVars
         ELSE LET m == [role |-> sv.history[sv.i].role, content |-> sv.history[sv.i].content,
                        branch_id |-> sv.currentBranchID, status |-> 0]
                  r == AddMessageResult(messages, branches, sv.currentParentID, m)
              IN \/ /\ sv' = SaveFailed
                    /\ UNCHANGED storeVars
                 \/ /\ AddMessage(sv.currentParentID, m)
                    /\ sv' = IF r.ok
                               THEN [sv EXCEPT !.currentParentID = r.id, !.currentBranchID = Nil,
                                               !.added = Append(@, r.id), !.i = sv.i + 1]
                               ELSE SaveFailed

\* Mutant: the assistant message is given the current branch id.
SaveAssistantIntoBranch(limit, assistantMsg, statusCode) ==
    /\ sv.pc = "assistant"
    /\ IF HasAssistant(assistantMsg, statusCode)
         THEN LET m == [role |-> assistantMsg.role, content |-> assistantMsg.content,
                        branch_id |-> sv.currentBranchID, status |-> statusCode]
                  r == AddMessageResult(messages, branches, sv.currentParentID, m)
              IN /\ Len(messages) < limit
                 /\ \/ /\ sv' = SaveFailed
                       /\ UNCHANGED storeVars
                    \/ /\ AddMessage(sv.currentParentID, m)
                       /\ sv' = [sv EXCEPT !.pc = "done", !.assistantMsg = assistantMsg,
                                           !.statusCode = statusCode,
                                           !.assistant = r.id, !.failed = ~r.ok]
         ELSE /\ sv' = [sv EXCEPT !.pc = "done", !.assistantMsg = assistantMsg,
                                  !.statusCode = statusCode]
              /\ UNCHANGED storeVars

\* saving_interceptor.go:86-95
SaveAssistantWithin(limit, assistantMsg, statusCode) ==
    /\ sv.pc = "assistant"
    /\ IF HasAssistant(assistantMsg, statusCode)
         THEN LET m == [role |-> assistantMsg.role, content |-> assistantMsg.content,
                        branch_id |-> Nil, status |-> statusCode]
                  r == AddMessageResult(messages, branches, sv.currentParentID, m)
              IN /\ Len(messages) < limit
                 /\ \/ /\ sv' = SaveFailed
                       /\ UNCHANGED storeVars
                    \/ /\ AddMessage(sv.currentParentID, m)
                       /\ sv' = [sv EXCEPT !.pc = "done", !.assistantMsg = assistantMsg,
                                           !.statusCode = statusCode,
                                           !.assistant = r.id, !.failed = ~r.ok]
         ELSE /\ sv' = [sv EXCEPT !.pc = "done", !.assistantMsg = assistantMsg,
                                  !.statusCode = statusCode]
              /\ UNCHANGED storeVars

SaveAssistant(assistantMsg, statusCode) ==
    SaveAssistantWithin(SaveMessages, assistantMsg, statusCode)

\* saving_interceptor.go:96  SaveToStorage returns; its locals are gone
SaveReturn ==
    /\ sv.pc = "done"
    /\ sv' = IdleSave
    /\ UNCHANGED storeVars

SaveFrame == UNCHANGED <<proxyVars, txs, mgrVars, chat, sse, rq, oll>>

SaveNext ==
    \/ (\E h \in Histories, t \in RequestTypes : SaveToStorage(h, t)) /\ SaveFrame
    \/ SaveFind /\ SaveFrame
    \/ SaveCreate /\ SaveFrame
    \/ SaveReplay /\ SaveFrame
    \/ (\E r \in Responses : SaveAssistant(r[1], r[2])) /\ SaveFrame
    \/ SaveReturn /\ SaveFrame

(***************************************************************************)
(* One client's exchanges: the saves of one interceptor (one request type), *)
(* each call made knowing the arguments and the outcome of the call before. *)
(***************************************************************************)
ChatRequestType == "chat"
\* The histories of a chat: a system message, if any, comes first.
ChatHistories ==
    {h \in UNION {[1..n -> HistoryPayloads] : n \in 0..ChatHistory} :
        \A k \in DOMAIN h : h[k].role = "system" => k = 1}
ChatResponses == {<<AssistantMsg("", 0), 0>>, <<AssistantMsg("a", 0), 0>>}

\* saving_interceptor.go:96  SaveToStorage returns to a caller that calls again
ChatReturn ==
    /\ sv.pc = "done"
    /\ sv' = [IdleSave EXCEPT !.prev = Returned(sv)]
    /\ UNCHANGED storeVars

ChatNext ==
    \/ (\E h \in ChatHistories : SaveEnter(ChatMessages, h, ChatRequestType)) /\ SaveFrame
    \/ SaveFind /\ SaveFrame
    \/ SaveCreate /\ SaveFrame
    \/ SaveReplay /\ SaveFrame
    \/ (\E r \in ChatResponses : SaveAssistantWithin(ChatMessages, r[1], r[2])) /\ SaveFrame
    \/ ChatReturn /\ SaveFrame

(***************************************************************************)
(* The specifications: a specification leaves the other subsystems where they are. *)
(***************************************************************************)

\* The state after construction: no request, empty tables, no transaction, no save.
(***************************************************************************)
(*                       THE INTERCEPTOR MANAGER                           *)
(***************************************************************************)
Endpoints == {"/api/chat", "/api/wild", "/api/other"}
Wildcard == "*"
Methods == {"GET", "POST", "PUT", Wildcard}
Interceptors == {"A", "B"}
\* the nil Interceptor
NoInterceptor == "nil"
NoLookup == [endpoint |-> "", method |-> "", interceptor |-> NoInterceptor, after |-> 0]

\* interceptor.go:44-48  NewInterceptorManager: an empty map
ManagerInit ==
    /\ interceptors = <<>>
    /\ registered = <<>>
    /\ got = NoLookup

\* m[k] = v on a Go map
Put(m, k, v) == [x \in DOMAIN m \cup {k} |-> IF x = k THEN v ELSE m[x]]

\* interceptor.go:52-59
RegisterInterceptor(endpoint, method, interceptor) ==
    /\ Len(registered) < MaxRegistrations
    /\ LET methods == IF endpoint \in DOMAIN interceptors
                        THEN interceptors[endpoint] ELSE <<>>
       IN interceptors' = Put(interceptors, endpoint, Put(methods, method, interceptor))
    /\ registered' = Append(registered, <<endpoint, method, interceptor>>)
    /\ got' = got

\* Mutant: the wildcard entry is tried before the exact method.
LookupWildcardFirst(endpoint, method) ==
    IF endpoint \notin DOMAIN interceptors THEN NoInterceptor
    ELSE IF Wildcard \in DOMAIN interceptors[endpoint] THEN interceptors[endpoint][Wildcard]
    ELSE IF method \in DOMAIN interceptors[endpoint] THEN interceptors[endpoint][method]
    ELSE NoInterceptor

\* interceptor.go:66-82  what GetInterceptor returns
Lookup(endpoint, method) ==
    IF endpoint \notin DOMAIN interceptors THEN NoInterceptor
    ELSE IF method \in DOMAIN interceptors[endpoint] THEN interceptors[endpoint][method]
    ELSE IF Wildcard \in DOMAIN interceptors[endpoint] THEN interceptors[endpoint][Wildcard]
    ELSE NoInterceptor

\* interceptor.go:62-83
ManagerGetInterceptor(endpoint, method) ==
    /\ got' = [endpoint |-> endpoint, method |-> method,
               interceptor |-> Lookup(endpoint, method),
               after |-> Len(registered)]
    /\ UNCHANGED <<interceptors, registered>>

ManagerFrame == UNCHANGED <<proxyVars, storeVars, txs, sv, chat, sse, rq, oll>>

\* Registrations use a concrete method or the wildcard; the proxy looks up the
\* method of the request (proxy.go:97).
ManagerNext ==
    \/ (\E e \in Endpoints \ {"/api/other"}, m \in Methods \ {"PUT"}, i \in Interceptors :
            RegisterInterceptor(e, m, i)) /\ ManagerFrame
    \/ (\E e \in Endpoints, m \in Methods \ {Wildcard} :
            ManagerGetInterceptor(e, m)) /\ ManagerFrame

(***************************************************************************)
(*            THE OPENAI CHAT INTERCEPTOR: RequestInterceptor              *)
(***************************************************************************)
(* A JSON text is a literal [lit |-> "true"] or an object                  *)
(* [members |-> <<[key, val, ws], ...>>] whose member values are JSON      *)
(* texts and whose ws counts the blanks after the colon.  A parsed value   *)
(* is [lit |-> canonical literal] or [obj |-> key -> parsed value].        *)
(***************************************************************************)
IsObject(text) == "members" \in DOMAIN text
Lit(l) == [lit |-> l]
Member(k, v, w) == [key |-> k, val |-> v, ws |-> w]
Object(ms) == [members |-> ms]
JSONTrue == Lit("true")

\* encoding/json reads every number of a map[string]any into a float64, which
\* holds integers exactly up to 2^53 only, and writes it back in its shortest
\* form.
Float64(l) ==
    CASE l = "1.0" -> "1"
      [] l = "9007199254740993" -> "9007199254740992"
      [] OTHER -> l

\* json.Unmarshal into map[string]any: of two members with one key the later
\* one counts.
RECURSIVE Unmarshal(_)
Unmarshal(ms) ==
    LET keys == {ms[i].key : i \in DOMAIN ms}
        lastOf(k) == CHOOSE i \in DOMAIN ms :
                        ms[i].key = k /\ \A j \in DOMAIN ms : ms[j].key = k => j <= i
        value(v) == IF IsObject(v) THEN [obj |-> Unmarshal(v.members)]
                                   ELSE Lit(Float64(v.lit))
    IN [k \in keys |-> value(ms[lastOf(k)].val)]

\* The keys of the model in the byte order json.Marshal sorts map keys by.
SortedKeys == <<"include_usage", "model", "seed", "stream", "stream_options", "x">>

\* json.Marshal of a map: keys sorted, no blanks.
RECURSIVE Marshal(_)
Marshal(o) ==
    LET keys == SelectSeq(SortedKeys, LAMBDA k : k \in DOMAIN o)
        text(v) == IF "obj" \in DOMAIN v THEN Object(Marshal(v.obj)) ELSE v
    IN [i \in DOMAIN keys |-> Member(keys[i], text(o[keys[i]]), 0)]

\* len(body): braces, quoted keys, colons, blanks, values and commas.
RECURSIVE ByteLen(_)
ByteLen(text) ==
    IF ~IsObject(text) THEN Len(text.lit)
    ELSE LET ms == text.members
             RECURSIVE Sum(_)
             Sum(i) == IF i = 0 THEN 0
                       ELSE Sum(i - 1) + Len(ms[i].key) + 3 + ms[i].ws + ByteLen(ms[i].val)
         IN 2 + Sum(Len(ms)) + (IF Len(ms) > 1 THEN Len(ms) - 1 ELSE 0)

\* stream, _ := chatReqMap["stream"].(bool)
Stream(chatReqMap) == "stream" \in DOMAIN chatReqMap /\ chatReqMap["stream"] = JSONTrue

\* openai_chat_interceptor.go:430-434  the stream_options object of the
\* request, or a new one when there is none or it is not an object
StreamOptions(chatReqMap) ==
    IF /\ "stream_options" \in DOMAIN chatReqMap
       /\ "obj" \in DOMAIN chatReqMap["stream_options"]
      THEN chatReqMap["stream_options"].obj
      ELSE <<>>

NoRequest == [pc |-> "idle", in |-> Lit(""), body |-> Lit(""), contentLength |-> 0, header |-> 0]

OpenAIInit == chat = NoRequest

\* The members a request body is made of.
StreamOptionsTexts ==
    { Lit("null"), Object(<<>>),
      Object(<<Member("include_usage", Lit("false"), 0)>>),
      Object(<<Member("x", Lit("1.0"), 1)>>),
      Object(<<Member("x", Lit("1"), 0), Member("include_usage", Lit("false"), 0)>>) }
BodyMembers ==
    {Member("model", Lit("\"m\""), 1), Member("seed", Lit("9007199254740993"), 0)}
    \cup {Member("stream", v, 0) : v \in {JSONTrue, Lit("false"), Lit("\"true\"")}}
    \cup {Member("stream", JSONTrue, 1)}
    \cup {Member("stream_options", v, 0) : v \in StreamOptionsTexts}
Bodies ==
    {Lit("1"), Lit("null"), Lit("{\"stream\":true")}
    \cup {Object(ms) : ms \in UNION {[1..n -> BodyMembers] : n \in 0..MaxMembers}}

\* A client request arrives, its Content-Length being the length of its body.
ChatRequest(body) ==
    /\ chat.pc = "idle"
    /\ chat' = [pc |-> "RequestInterceptor", in |-> body, body |-> body,
                contentLength |-> ByteLen(body), header |-> ByteLen(body)]

\* openai_chat_interceptor.go:403-462
ChatRequestInterceptor ==
    /\ chat.pc = "RequestInterceptor"
    /\ IF IsObject(chat.body) /\ Stream(Unmarshal(chat.body.members))
         THEN LET chatReqMap == Unmarshal(chat.body.members)
                  streamOptions == Put(StreamOptions(chatReqMap), "include_usage", JSONTrue)
                  newBody == Object(Marshal(Put(chatReqMap, "stream_options",
                                                [obj |-> streamOptions])))
              IN chat' = [chat EXCEPT !.pc = "done",
                                      !.body = newBody,
                                      !.contentLength = ByteLen(newBody),
                                      !.header = ByteLen(newBody)]
         ELSE chat' = [chat EXCEPT !.pc = "done"]

OpenAIFrame == UNCHANGED <<proxyVars, storeVars, txs, sv, mgrVars, sse, rq, oll>>

OpenAINext ==
    \/ (\E b \in Bodies : ChatRequest(b)) /\ OpenAIFrame
    \/ ChatRequestInterceptor /\ OpenAIFrame

(***************************************************************************)
(*            THE OPENAI CHAT INTERCEPTOR: ChunkInterceptor                *)
(***************************************************************************)
(* The upstream sends one SSE frame per delta, "data: " payload "\n"; the   *)
(* bytes of a frame are the prefix, the two halves of its payload and the  *)
(* newline, so that a chunk may end between any two of them.               *)
(***************************************************************************)
ToolCallDelta(x, id, type, name, arguments) ==
    [index |-> x, id |-> id, type |-> type, name |-> name, arguments |-> arguments]
ToolCall(id, type, name, arguments) ==
    [id |-> id, type |-> type, name |-> name, arguments |-> arguments]
Delta(c, role, content, toolCalls, finish, tokens) ==
    [index |-> c, role |-> role, content |-> content, tool_calls |-> toolCalls,
     finish_reason |-> finish, total_tokens |-> tokens]

\* tool-call deltas as OpenAI streams them: the opening one carries id, type
\* and name, the following ones a fragment of the arguments
Open0 == ToolCallDelta(0, "call_0", "function", "f", "")
Open1 == ToolCallDelta(1, "call_1", "function", "g", "")
Frag0 == ToolCallDelta(0, "", "", "", "x")
Frag1 == ToolCallDelta(1, "", "", "", "y")

\* The payload "[DONE]" that ends a stream.
DoneFrame == [done |-> TRUE]
Deltas ==
    { Delta(0, "assistant", "a", <<>>, "", 0),
      Delta(1, "", "b", <<>>, "", 0),
      Delta(0, "", "", <<>>, "stop", 5) }
    \cup { Delta(0, "", "", tcs, "", 0) :
              tcs \in { <<Open0>>, <<Open1>>, <<Frag0>>, <<Frag1>>,
                        <<Open0, Open1>>, <<Frag0, Frag1>> } }
Frames == Deltas \cup {DoneFrame}

\* The bytes of frame i.
FrameBytes(i) == << [t |-> "data: ", f |-> 0], [t |-> "head", f |-> i],
                    [t |-> "tail", f |-> i], [t |-> "\n", f |-> 0] >>
FrameLen == 4
RECURSIVE StreamBytes(_)
StreamBytes(n) == IF n = 0 THEN <<>> ELSE StreamBytes(n - 1) \o FrameBytes(n)

\* strings.Split(chunk, "\n")
RECURSIVE Split(_, _)
Split(bytes, line) ==
    IF bytes = <<>> THEN <<line>>
    ELSE IF Head(bytes).t = "\n" THEN <<line>> \o Split(Tail(bytes), <<>>)
    ELSE Split(Tail(bytes), Append(line, Head(bytes)))

\* openai_chat_interceptor.go:495-503  the frame whose payload a line holds in
\* full behind "data: ", or 0: json.Unmarshal fails on part of a payload, and
\* a line without the prefix is passed over.
Payload(line) ==
    IF /\ Len(line) = 3
       /\ line[1].t = "data: " /\ line[2].t = "head" /\ line[3].t = "tail"
       /\ line[2].f = line[3].f
      THEN line[2].f ELSE 0

NoChoice == [role |-> "", content |-> "", toolCalls |-> <<>>, finish_reason |-> ""]
NoResponse == [id |-> "", choices |-> <<>>, total_tokens |-> 0]

\* openai_chat_interceptor.go:529  for i, tc := range choice.Delta.ToolCalls:
\* the position is the place of tc in the delta's list (chatToolCall has no
\* index field, 310-314)
ToolCallPosition(i, tc) == i

\* openai_chat_interceptor.go:530-543  one tool-call delta
MergeToolCall(toolCalls, at, tc) ==
    IF at > Len(toolCalls)
      THEN Append(toolCalls, ToolCall(tc.id, tc.type, tc.name, tc.arguments))
      ELSE LET old == toolCalls[at]
           IN [toolCalls EXCEPT ![at] =
                 ToolCall(IF tc.id # "" THEN tc.id ELSE old.id,
                          IF tc.type # "" THEN tc.type ELSE old.type,
                          IF tc.name # "" THEN tc.name ELSE old.name,
                          old.arguments \o tc.arguments)]

\* openai_chat_interceptor.go:525-545  the tool calls of one delta, the list
\* being made with one empty entry per tool call of the delta when it is nil
RECURSIVE MergeToolCalls(_, _, _)
MergeToolCalls(toolCalls, tcs, i) ==
    IF i > Len(tcs) THEN toolCalls
    ELSE MergeToolCalls(MergeToolCall(toolCalls, ToolCallPosition(i, tcs[i]), tcs[i]),
                        tcs, i + 1)
\* make([]chatToolCall, n)
RECURSIVE MakeToolCalls(_)
MakeToolCalls(n) ==
    IF n = 0 THEN <<>> ELSE Append(MakeToolCalls(n - 1), ToolCall("", "", "", ""))
MergeDeltaToolCalls(toolCalls, tcs) ==
    IF Len(tcs) = 0 THEN toolCalls
    ELSE MergeToolCalls(IF Len(toolCalls) = 0 THEN MakeToolCalls(Len(tcs)) ELSE toolCalls,
                        tcs, 1)

\* openai_chat_interceptor.go:513-518  the choices, grown to n of them
RECURSIVE ExpandChoices(_, _)
ExpandChoices(choices, n) ==
    IF Len(choices) >= n THEN choices ELSE ExpandChoices(Append(choices, NoChoice), n)

\* openai_chat_interceptor.go:505-556  one parsed payload
MergeDelta(response, d) ==
    LET c == d.index + 1
        choices == ExpandChoices(response.choices, c)
        old == choices[c]
        new == [role |-> IF d.role # "" THEN d.role ELSE old.role,
                content |-> old.content \o d.content,
                toolCalls |-> MergeDeltaToolCalls(old.toolCalls, d.tool_calls),
                finish_reason |-> IF d.finish_reason # "" THEN d.finish_reason
                                                          ELSE old.finish_reason]
    IN [id |-> IF response.id = "" THEN "chatcmpl-123" ELSE response.id,
        choices |-> [choices EXCEPT ![c] = new],
        total_tokens |-> IF d.total_tokens > 0 THEN d.total_tokens
                                               ELSE response.total_tokens]

\* openai_chat_interceptor.go:491-556  the lines of one chunk, in order
RECURSIVE MergeLines(_, _, _)
MergeLines(s, lines, i) ==
    IF i > Len(lines) THEN s
    ELSE LET f == Payload(lines[i])
         IN IF f = 0 \/ s.frames[f] = DoneFrame
              THEN MergeLines(s, lines, i + 1)
              ELSE MergeLines([pc |-> s.pc, frames |-> s.frames, pos |-> s.pos,
                               response |-> MergeDelta(s.response, s.frames[f]),
                               parsed |-> Append(s.parsed, f)],
                              lines, i + 1)

NoStream == [pc |-> "idle", frames |-> <<>>, pos |-> 0, response |-> NoResponse,
             parsed |-> <<>>]

SSEInit == sse = NoStream

\* CreateState, and the frames the upstream is going to send.
SSEStart(frames) ==
    /\ sse.pc = "idle"
    /\ sse' = [NoStream EXCEPT !.pc = "streaming", !.frames = frames]

\* openai_chat_interceptor.go:487-559  ChunkInterceptor on the next n bytes
SSEChunkInterceptor(n) ==
    /\ sse.pc = "streaming"
    /\ sse.pos + n <= FrameLen * Len(sse.frames)
    /\ LET chunk == SubSeq(StreamBytes(Len(sse.frames)), sse.pos + 1, sse.pos + n)
       IN sse' = [MergeLines(sse, Split(chunk, <<>>), 1) EXCEPT !.pos = sse.pos + n]

\* OnComplete: the upstream body is at its end.
SSEComplete ==
    /\ sse.pc = "streaming"
    /\ sse.pos = FrameLen * Len(sse.frames)
    /\ sse' = [sse EXCEPT !.pc = "done"]

SSEFrame == UNCHANGED <<proxyVars, storeVars, txs, sv, mgrVars, chat, rq, oll>>

SSENext ==
    \/ (\E n \in 1..MaxFrames : \E fs \in [1..n -> Frames] : SSEStart(fs)) /\ SSEFrame
    \/ (\E n \in 1..(FrameLen * MaxFrames) : SSEChunkInterceptor(n)) /\ SSEFrame
    \/ SSEComplete /\ SSEFrame

(***************************************************************************)
(* One proxied request of the OpenAI ChatInterceptor: saveLog runs at the  *)
(* end of RequestInterceptor and again in OnComplete / OnError, both times *)
(* on the messages of the same request.                                    *)
(***************************************************************************)
\* Mutant: the request-time save carries a reply already.
EarlyReply == [role |-> "assistant", content |-> "a", toolCalls |-> 0]

\* The zero value of storage.SimpleMessage: saveLog's assistantMsg while the
\* response has no choice.
ZeroMessage == [role |-> "", content |-> "", toolCalls |-> 0]

\* The length of the longest prefix of the history that a lookup finds.
LongestStored(history, requestType) ==
    LET found == {k \in 1..Len(history) :
                     FindMessageByHistory(SubSeq(history, 1, k), requestType) # Nil}
    IN IF found = {} THEN 0 ELSE CHOOSE k \in found : \A j \in found : j <= k

\* The histories of the requests: a system message, if any, comes first.
RequestHistories ==
    {h \in UNION {[1..n -> HistoryPayloads] : n \in 0..RequestHistory} :
        \A k \in DOMAIN h : h[k].role = "system" => k = 1}

NoRequestSaves == [pc |-> "idle", history |-> <<>>, stored |-> 0, matched |-> 0,
                   middle |-> 0, failed |-> FALSE, requestAssistant |-> Nil,
                   assistant |-> Nil]

RequestInit == rq = NoRequestSaves

\* openai_chat_interceptor.go:455-456  RequestInterceptor: oi.saveLog(openAIState)
RequestSaveLog(history) ==
    /\ rq.pc = "idle"
    /\ SaveEnter(RequestMessages, history, ChatRequestType)
    /\ rq' = [NoRequestSaves EXCEPT !.pc = "request", !.history = history,
                                    !.stored = Len(messages),
                                    !.matched = LongestStored(history, ChatRequestType)]

\* The steps of the running SaveToStorage call.
RequestFind == rq.pc \in {"request", "terminal"} /\ SaveFind /\ UNCHANGED rq
RequestCreate == rq.pc \in {"request", "terminal"} /\ SaveCreate /\ UNCHANGED rq
RequestReplay == rq.pc \in {"request", "terminal"} /\ SaveReplay /\ UNCHANGED rq

\* openai_chat_interceptor.go:618-640  at request time the response has no
\* choice and ResponseInterceptor has not set the status code
RequestAssistant ==
    /\ rq.pc = "request"
    /\ SaveAssistantWithin(RequestMessages, ZeroMessage, 0)
    /\ UNCHANGED rq

\* RequestInterceptor returns; the request goes upstream
RequestReturn ==
    /\ rq.pc = "request"
    /\ sv.pc = "done"
    /\ rq' = [rq EXCEPT !.pc = "upstream", !.middle = Len(messages),
                        !.failed = (sv = SaveFailed),
                        !.requestAssistant = sv.assistant]
    /\ sv' = IdleSave
    /\ UNCHANGED storeVars

\* openai_chat_interceptor.go:562-583  OnComplete / OnError: oi.saveLog(openAIState)
TerminalSaveLog ==
    /\ rq.pc = "upstream"
    /\ SaveEnter(RequestMessages, rq.history, ChatRequestType)
    /\ rq' = [rq EXCEPT !.pc = "terminal"]

\* openai_chat_interceptor.go:618-640  the first choice and the status code
TerminalAssistant(assistantMsg, statusCode) ==
    /\ rq.pc = "terminal"
    /\ SaveAssistantWithin(RequestMessages, assistantMsg, statusCode)
    /\ UNCHANGED rq

\* the terminal hook returns
TerminalReturn ==
    /\ rq.pc = "terminal"
    /\ sv.pc = "done"
    /\ rq' = [rq EXCEPT !.pc = "done", !.failed = (rq.failed \/ sv = SaveFailed),
                        !.assistant = sv.assistant]
    /\ sv' = IdleSave
    /\ UNCHANGED storeVars

\* the request is over; the next one gets a state of its own (CreateState)
RequestEnd ==
    /\ rq.pc = "done"
    /\ rq' = NoRequestSaves
    /\ UNCHANGED <<sv, storeVars>>

RequestFrame == UNCHANGED <<proxyVars, txs, mgrVars, chat, sse, oll>>

RequestNext ==
    \/ (\E h \in RequestHistories : RequestSaveLog(h)) /\ RequestFrame
    \/ RequestFind /\ RequestFrame
    \/ RequestCreate /\ RequestFrame
    \/ RequestReplay /\ RequestFrame
    \/ RequestAssistant /\ RequestFrame
    \/ RequestReturn /\ RequestFrame
    \/ TerminalSaveLog /\ RequestFrame
    \/ (\E r \in Responses : TerminalAssistant(r[1], r[2])) /\ RequestFrame
    \/ TerminalReturn /\ RequestFrame
    \/ RequestEnd /\ RequestFrame

(***************************************************************************)
(* The Ollama interceptors (/api/chat, /api/generate): ChunkInterceptor on *)
(* the chunks of one streamed response, then saveLog.                      *)
(***************************************************************************)
OllamaKinds == {"chat", "generate"}

\* model, prompt_eval_count, eval_count, prompt_eval_duration, eval_duration
Meta(model, promptEvalCount, evalCount, promptEvalDuration, evalDuration) ==
    [model |-> model, prompt_eval_count |-> promptEvalCount, eval_count |-> evalCount,
     prompt_eval_duration |-> promptEvalDuration, eval_duration |-> evalDuration]
ZeroMeta == Meta("", 0, 0, 0, 0)
Metas == {Meta("m1", 3, 5, 30, 50), Meta("m2", 4, 6, 40, 60)}

\* One JSON object of the upstream stream: the fields a chatResponse or a
\* generateResponse reads from it.
OllamaObject(messageContent, response, done, meta) ==
    [message |-> [role |-> IF messageContent = "" THEN "" ELSE "assistant",
                  content |-> messageContent],
     response |-> response, done |-> done, meta |-> meta]
OllamaObjects ==
    {OllamaObject(c[1], c[2], d, m) :
        c \in {<<"a", "">>, <<"b", "">>, <<"", "a">>, <<"", "b">>, <<"", "">>},
        d \in BOOLEAN, m \in Metas}

\* What one Read of the upstream body delivers: the objects in it, and
\* whether the bytes end in the middle of an object.
OllamaChunk(objects, cut) == [objects |-> objects, cut |-> cut]
OllamaChunks ==
    {OllamaChunk(<<o>>, FALSE) : o \in OllamaObjects}
        \cup {OllamaChunk(<<>>, TRUE),
              OllamaChunk(<<OllamaObject("a", "a", FALSE, ZeroMeta),
                            OllamaObject("b", "b", TRUE, ZeroMeta)>>, FALSE)}

\* json.Unmarshal(chunk, &resp) returns nil: the chunk is one whole JSON value
Parses(chunk) == Len(chunk.objects) = 1 /\ ~chunk.cut

\* part_001:401-413, 213-226  the struct json.Unmarshal fills for the
\* interceptor: the chat one reads message, the generate one reads response
Decoded(kind, chunk) ==
    LET o == chunk.objects[1]
    IN [role |-> IF kind = "chat" THEN o.message.role ELSE "",
        content |-> IF kind = "chat" THEN o.message.content ELSE o.response,
        done |-> o.done, meta |-> o.meta]

ZeroResponse == [role |-> "", content |-> "", done |-> FALSE, meta |-> ZeroMeta]

\* Mutant: the final object replaces the state, accumulated content included.
AccumulateReplacing(response, decoded) ==
    IF decoded.done THEN decoded
    ELSE [response EXCEPT !.content = response.content \o decoded.content]

\* part_001:499-503, 312-316  currentResponse; if Done the state's response
\* is replaced; then the content is set to currentResponse
Accumulate(response, decoded) ==
    LET currentResponse == response.content \o decoded.content
    IN IF decoded.done
         THEN [role |-> decoded.role, content |-> currentResponse,
               done |-> decoded.done, meta |-> decoded.meta]
         ELSE [role |-> response.role, content |-> currentResponse,
               done |-> response.done, meta |-> response.meta]

NoSaved == [role |-> "", content |-> "", model |-> "", prompt_tokens |-> 0,
            completion_tokens |-> 0, prompt_eval_duration |-> 0, eval_duration |-> 0]
NoOllama == [pc |-> "idle", kind |-> "", chunks |-> <<>>, response |-> ZeroResponse,
             saved |-> NoSaved]

OllamaInit == oll = NoOllama

\* CreateState for a request to one of the two endpoints
OllamaCreateState(kind) ==
    /\ oll.pc = "idle"
    /\ oll' = [NoOllama EXCEPT !.pc = "streaming", !.kind = kind]

\* part_001:491-507, 304-320  ChunkInterceptor
OllamaChunkInterceptor(chunk) ==
    /\ oll.pc = "streaming"
    /\ Len(oll.chunks) < MaxOllamaChunks
    /\ oll' = [oll EXCEPT !.chunks = Append(oll.chunks, chunk),
                          !.response = IF Parses(chunk)
                                         THEN Accumulate(oll.response, Decoded(oll.kind, chunk))
                                         ELSE oll.response]

\* part_001:534-553, 344-363  saveLog in OnComplete / OnError: the assistant
\* message handed to SaveToStorage
OllamaSaveLog ==
    /\ oll.pc = "streaming"
    /\ oll' = [oll EXCEPT
                 !.pc = "saved",
                 !.saved = [role |-> IF oll.kind = "chat" THEN oll.response.role
                                     ELSE "assistant",
                            content |-> oll.response.content,
                            model |-> oll.response.meta.model,
                            prompt_tokens |-> oll.response.meta.prompt_eval_count,
                            completion_tokens |-> oll.response.meta.eval_count,
                            prompt_eval_duration |-> oll.response.meta.prompt_eval_duration,
                            eval_duration |-> oll.response.meta.eval_duration]]

OllamaFrame == UNCHANGED <<proxyVars, storeVars, txs, sv, mgrVars, chat, sse, rq>>

OllamaNext ==
    \/ (\E k \in OllamaKinds : OllamaCreateState(k)) /\ OllamaFrame
    \/ (\E c \in OllamaChunks : OllamaChunkInterceptor(c)) /\ OllamaFrame
    \/ OllamaSaveLog /\ OllamaFrame

(***************************************************************************)
(* Lookups on the store: FindMessageByHistory called directly, between     *)
(* the calls that fill the store.                                          *)
(***************************************************************************)
FindHistories ==
    UNION {[1..n -> DeepPayloads] : n \in 0..FindMessages}

\* part_014:265-284  FindMessageByHistory, its result kept in `last`
StoreFind(history, requestType) ==
    /\ last' = [op |-> "FindMessageByHistory", parent |-> Nil, branch |-> Nil, ok |-> TRUE,
                id |-> FindMessageByHistory(history, requestType),
                nbranches |-> Len(branches),
                history |-> history, requestType |-> requestType]
    /\ UNCHANGED <<conversations, branches, messages>>

FindNext ==
    \/ StoreCreateConversation /\ StoreFrame
    \/ AddUnderParent(FindMessages, DeepPayloads) /\ StoreFrame
    \/ AddToBranch(FindMessages, DeepPayloads) /\ StoreFrame
    \/ (\E h \in FindHistories, t \in RequestTypes : StoreFind(h, t)) /\ StoreFrame

Init ==
    /\ ProxyInit /\ StoreInit /\ TxInit /\ SaveInit /\ ManagerInit /\ OpenAIInit /\ SSEInit
    /\ RequestInit /\ OllamaInit

SpecProxy ==
    /\ Init
    /\ [][ProxyNext]_vars

SpecStore ==
    /\ Init
    /\ [][StoreNext]_vars

SpecDeep ==
    /\ Init
    /\ [][DeepNext]_vars

SpecTx ==
    /\ Init
    /\ [][TxNext]_vars

SpecSave ==
    /\ Init
    /\ [][SaveNext]_vars

SpecChat ==
    /\ Init
    /\ [][ChatNext]_vars

SpecManager ==
    /\ Init
    /\ [][ManagerNext]_vars

SpecOpenAI ==
    /\ Init
    /\ [][OpenAINext]_vars

SpecSSE ==
    /\ Init
    /\ [][SSENext]_vars

SpecFind ==
    /\ Init
    /\ [][FindNext]_vars

SpecRequest ==
    /\ Init
    /\ [][RequestNext]_vars

SpecOllama ==
    /\ Init
    /\ [][OllamaNext]_vars

SpecRefused ==
    /\ Init
    /\ [][RefusedNext]_vars

(***************************************************************************)
(*                        CLAIMS ABOUT THE PROXY                           *)
(***************************************************************************)
Calls(S) == {i \in DOMAIN trace : trace[i] \in S}
Count(S) == Cardinality(Calls(S))
Received == resp # NoResp

\* C1: with a registered interceptor, whatever the upstream outcome, exactly
\* one of OnComplete / OnError is invoked, once, and it is the last hook of
\* the request: never two terminal calls, nothing logged after a terminal
\* call, and a finished request has made its terminal call.
C1_ExactlyOneTerminalHook ==
    /\ Count(Terminal) <= 1
    /\ \A i \in Calls(Terminal) : i = Len(trace)
    /\ (pc = "done" /\ intcptor) => Count(Terminal) = 1
    /\ ~intcptor => Count(HookNames) = 0

\* C1 witness: a request whose client write failed ended with its one OnError.
C1_Witness ==
    /\ pc = "done" /\ intcptor /\ err = "write"
    /\ trace[Len(trace)] = "OnError"

\* The stage of the request an event belongs to.
Stage(e) ==
    CASE e = "CreateState"         -> 1
      [] e = "RequestInterceptor"  -> 2
      [] e = "Dispatch"            -> 3
      [] e = "ResponseInterceptor" -> 4
      [] e \in {"ContentInterceptor", "ChunkInterceptor"} -> 5
      [] e \in Terminal            -> 6

\* C2: the hooks of one request come in the order CreateState,
\* RequestInterceptor, upstream dispatch, ResponseInterceptor, then either
\* ContentInterceptor or a run of ChunkInterceptor, then OnComplete or OnError;
\* only ChunkInterceptor repeats; at most one hook runs at a time and it is
\* the one called last, so no stage starts before the previous hook returned.
C2_HookOrder ==
    /\ \A i, j \in DOMAIN trace : i < j =>
          /\ Stage(trace[i]) <= Stage(trace[j])
          /\ Stage(trace[i]) = Stage(trace[j]) =>
                trace[i] = "ChunkInterceptor" /\ trace[j] = "ChunkInterceptor"
    /\ intcptor =>
          /\ \A i \in DOMAIN trace : Stage(trace[i]) >= 3 =>
                i >= 3 /\ trace[1] = "CreateState" /\ trace[2] = "RequestInterceptor"
          /\ \A i \in DOMAIN trace : Stage(trace[i]) = 5 =>
                i >= 5 /\ trace[3] = "Dispatch" /\ trace[4] = "ResponseInterceptor"
          /\ \A i \in Calls(Terminal) : i >= 4 /\ trace[3] = "Dispatch"
    /\ Cardinality(running) <= 1
    /\ running # {} => running = {trace[Len(trace)]}

\* C2 witness: a streamed request went through every stage, two chunks.
C2_Witness ==
    /\ pc = "done"
    /\ trace = <<"CreateState", "RequestInterceptor", "Dispatch", "ResponseInterceptor",
                 "ChunkInterceptor", "ChunkInterceptor", "OnComplete">>

\* C3 as stated: for every received response, not chunked means
\* ContentInterceptor exactly once and ChunkInterceptor never; chunked means
\* ChunkInterceptor at least once and ContentInterceptor never.
C3_Original ==
    (pc = "done" /\ intcptor /\ Received) =>
        IF IsChunked(resp)
          THEN Count({"ChunkInterceptor"}) >= 1 /\ Count({"ContentInterceptor"}) = 0
          ELSE Count({"ContentInterceptor"}) = 1 /\ Count({"ChunkInterceptor"}) = 0

\* C3 amended: for every received response, not chunked means ChunkInterceptor
\* never and ContentInterceptor at most once, exactly once when the body was
\* read without error; chunked means ContentInterceptor never and
\* ChunkInterceptor once per chunk read from the upstream body, which is not
\* at all when the body is empty or its first read fails.
C3_ContentOrChunks ==
    (pc = "done" /\ intcptor /\ Received) =>
        IF IsChunked(resp)
          THEN /\ Count({"ContentInterceptor"}) = 0
               /\ Count({"ChunkInterceptor"}) = nread
               /\ nread <= resp.chunks
               /\ (err \in {"", "status", "read"}) => nread = resp.chunks
          ELSE /\ Count({"ChunkInterceptor"}) = 0
               /\ Count({"ContentInterceptor"}) = (IF err = "read" THEN 0 ELSE 1)
               /\ (err = "read") = resp.failAfter

\* C3 witness: a chunked response of two chunks was relayed through the hook.
C3_Witness ==
    /\ pc = "done" /\ intcptor /\ IsChunked(resp)
    /\ Count({"ChunkInterceptor"}) = 2

\* C14: after a transport failure of the upstream request the client has
\* received 502 Bad Gateway and nothing else, no response exists, neither
\* ResponseInterceptor, ContentInterceptor nor ChunkInterceptor is invoked,
\* OnComplete is never invoked, and the error handed to OnError, the last
\* hook of the request, is the transport failure.
C14_TransportFailure ==
    err = "transport" =>
        /\ client.status = <<StatusBadGateway>>
        /\ client.body = <<"Upstream error">>
        /\ ~Received
        /\ Count({"ResponseInterceptor", "ContentInterceptor", "ChunkInterceptor"}) = 0
        /\ Count({"OnComplete"}) = 0
        /\ (intcptor /\ pc \in {"inOnError", "log", "done"}) =>
              trace[Len(trace)] = "OnError" /\ Count({"OnError"}) = 1

\* C14 witness: a request with an interceptor ended after a transport failure.
C14_Witness ==
    /\ pc = "done" /\ intcptor /\ err = "transport"
    /\ client.status = <<StatusBadGateway>>

\* What the client has received as body: its writes, one after the other.
RECURSIVE Flatten(_)
Flatten(writes) ==
    IF writes = <<>> THEN <<>> ELSE writes[1] \o Flatten(Tail(writes))
Relayed == Flatten(client.body)

\* The upstream answered with a status of 400 or more and the request is over.
ErrorStatusDone == pc = "done" /\ Received /\ resp.status >= 400

\* The terminal hook is OnError, never OnComplete, and it comes after
\* ResponseInterceptor.
OnErrorAfterResponse ==
    intcptor =>
        /\ trace[Len(trace)] = "OnError"
        /\ Count({"OnComplete"}) = 0
        /\ \E i \in DOMAIN trace : trace[i] = "ResponseInterceptor"

\* C15 as stated: with an upstream status of 400 or more the client receives
\* that status and the upstream body, and the terminal hook is OnError, after
\* the body was relayed and after ResponseInterceptor.
C15_Original ==
    ErrorStatusDone =>
        /\ client.status = <<resp.status>>
        /\ Relayed = Body(resp.chunks)
        /\ OnErrorAfterResponse

\* C15: with an upstream status of 400 or more the client receives that
\* status, ServeHTTP2 returns an error and the terminal hook is OnError, after
\* ResponseInterceptor; the client has received the chunks of the upstream
\* body in order, each as the upstream sent it or as the Content/Chunk hook
\* replaced it, all of them unless a body read or a client write failed, and
\* unchanged when no interceptor is registered.
C15_ErrorStatusPassedThrough ==
    ErrorStatusDone =>
        /\ client.status = <<resp.status>>
        /\ err # ""
        /\ OnErrorAfterResponse
        /\ Len(Relayed) <= resp.chunks
        /\ \A i \in DOMAIN Relayed : Relayed[i].id = i
        /\ err = "status" => Len(Relayed) = resp.chunks
        /\ ~intcptor => \A i \in DOMAIN Relayed : Relayed[i] = Chunk(i)

\* C15 witness: a 500 with a body of two chunks was relayed untouched and
\* ended in OnError.
C15_Witness ==
    /\ ErrorStatusDone /\ intcptor
    /\ resp.status = 500 /\ resp.chunks = 2
    /\ err = "status"
    /\ Relayed = Body(2)
    /\ trace[Len(trace)] = "OnError"

\* Hook h returned an error when k chunks had been read.
HookFailed(h, k) == <<h, k>> \in hookErrs

\* C16: an error returned by RequestInterceptor, ResponseInterceptor,
\* ContentInterceptor or ChunkInterceptor does not abort the request: the
\* upstream call is made, the status is relayed, a body or chunk whose hook
\* failed reaches the client as the upstream sent it, and the terminal hook is
\* OnError only for a transport failure, a failed body read, a failed or short
\* client write or a status of 400 or more; without any of these the whole
\* body is relayed and the terminal hook is OnComplete.
C16_HookErrorsDoNotAbort ==
    pc = "done" =>
        /\ Count({"Dispatch"}) = 1
        /\ Received => client.status = <<resp.status>>
        /\ (HookFailed("ContentInterceptor", resp.chunks) /\ err # "write")
              => Relayed = Body(resp.chunks)
        /\ \A k \in 1..MaxChunks :
              (HookFailed("ChunkInterceptor", k) /\ Len(Relayed) >= k) => Relayed[k] = Chunk(k)
        /\ err \in {"", "transport", "read", "write", "short write", "status"}
        /\ err = "read" => resp.failAfter
        /\ err = "status" => resp.status >= 400
        /\ err = "short write" => \E i \in DOMAIN Relayed : Relayed[i].resized
        /\ err = "" => Len(Relayed) = resp.chunks
        /\ intcptor => (trace[Len(trace)] = "OnError") = (err # "")

\* C16 witness: the request, the response and both chunk hook calls failed;
\* the client received the upstream chunks and the request ended in OnComplete.
C16_Witness ==
    /\ pc = "done"
    /\ hookErrs = {<<"RequestInterceptor", 0>>, <<"ResponseInterceptor", 0>>,
                   <<"ChunkInterceptor", 1>>, <<"ChunkInterceptor", 2>>}
    /\ Relayed = Body(2)
    /\ trace[Len(trace)] = "OnComplete"

(***************************************************************************)
(*                        CLAIMS ABOUT THE STORE                           *)
(***************************************************************************)
MessagesOf(b) == {i \in DOMAIN messages : messages[i].branch_id = b}
ChildrenOf(p) == {i \in DOMAIN messages : messages[i].parent_message_id = p}
Added == last.op = "AddMessage" /\ last.ok
\* The last call was an AddMessage under a parent that already had a child.
Forked == Added /\ last.parent # Nil /\ ChildrenOf(last.parent) # {last.id}

\* C4: AddMessage under a parent that already has a child message creates a
\* branch whose parent_branch_id is the parent's branch and whose
\* parent_message_id is the parent, and puts the new message into it; under a
\* parent without a child the message goes into the parent's own branch and
\* no branch is created.
C4_ForkOrExtend ==
    (Added /\ last.parent # Nil) =>
        LET m == messages[last.id]
            p == messages[last.parent]
        IN /\ last.id = Len(messages)
           /\ m.parent_message_id = last.parent
           /\ IF Forked
                THEN /\ Len(branches) = last.nbranches + 1
                     /\ m.branch_id = Len(branches)
                     /\ MessagesOf(m.branch_id) = {last.id}
                     /\ branches[m.branch_id].parent_branch_id = p.branch_id
                     /\ branches[m.branch_id].parent_message_id = last.parent
                ELSE /\ Len(branches) = last.nbranches
                     /\ m.branch_id = p.branch_id

\* C4 witness: a fork off a message in the middle of a branch.
C4_Witness ==
    /\ Forked
    /\ messages[last.parent].parent_message_id # Nil

\* C5: in every branch the sequence numbers form a contiguous ascending run
\* that starts at 1 in a root branch and at parent_message.sequence_number + 1
\* in a forked one, whatever CreateConversation and AddMessage calls were made
\* (AddMessage without a parent and with any existing branch id included).
FirstSequenceNumber(b) ==
    IF branches[b].parent_message_id = Nil THEN 1
    ELSE messages[branches[b].parent_message_id].sequence_number + 1
C5_ContiguousSequenceNumbers ==
    \A b \in DOMAIN branches :
        {messages[i].sequence_number : i \in MessagesOf(b)} =
            FirstSequenceNumber(b) .. (FirstSequenceNumber(b) + Cardinality(MessagesOf(b)) - 1)

\* The (role, content) sequence a message's hash chain covers: the message
\* and its ancestors along parent_message_id.
Pair(i) == [role |-> messages[i].role, content |-> messages[i].content]
RECURSIVE PrefixOf(_)
PrefixOf(i) ==
    IF messages[i].parent_message_id = Nil THEN <<Pair(i)>>
    ELSE Append(PrefixOf(messages[i].parent_message_id), Pair(i))

\* C6: two stored messages have the same cumulative hash if and only if their
\* (role, content) prefix sequences are identical.
C6_HashIdentifiesPrefix ==
    \A i, j \in DOMAIN messages :
        (messages[i].cumulative_hash = messages[j].cumulative_hash)
            <=> (PrefixOf(i) = PrefixOf(j))

\* C7: every result of GetBranchHistory(b) is strictly ascending in sequence
\* number, and the chained hash recomputed over its (role, content) pairs is
\* the stored cumulative hash of its last message.
C7_HistoryAscendingAndHashed ==
    \A b \in DOMAIN branches : \A h \in GetBranchHistory(b) :
        /\ \A k \in 1..(Len(h) - 1) :
              messages[h[k]].sequence_number < messages[h[k + 1]].sequence_number
        /\ h # <<>> =>
              computeHistoryHash([k \in DOMAIN h |-> Pair(h[k])])
                  = messages[h[Len(h)]].cumulative_hash

\* The part of history h up to and including message p.
UpTo(h, p) == SubSeq(h, 1, CHOOSE k \in DOMAIN h : h[k] = p)

\* C8: a fork leaves GetBranchHistory of every branch that existed unchanged,
\* and GetBranchHistory of the new branch is the history of the fork point's
\* branch up to and including the fork point, followed by the new branch's
\* messages, at any depth of nesting.
C8_ForkSplicesHistory ==
    [][Forked' =>
          /\ \A b \in DOMAIN branches : GetBranchHistory(b)' = GetBranchHistory(b)
          /\ GetBranchHistory(Len(branches))' =
                {UpTo(h, last.parent) \o <<last.id>> :
                     h \in GetBranchHistory(messages[last.parent].branch_id)}'
      ]_vars

(***************************************************************************)
(*                  CLAIMS ABOUT CONCURRENT ADDMESSAGE                     *)
(***************************************************************************)
\* Two finished AddMessage transactions that overlapped in time and were both
\* started under the same parent message while it had no child.
RacedOnChildlessParent(t, u) ==
    /\ t # u
    /\ txs[t].pc = "done" /\ txs[u].pc = "done"
    /\ u \in txs[t].peers
    /\ txs[t].parent # Nil /\ txs[t].parent = txs[u].parent
    /\ txs[t].childless /\ txs[u].childless

\* C9: two AddMessage transactions running concurrently under the same parent
\* message, which has no child yet, both commit: one extends the parent's
\* branch and the other forks; neither fails.
C9_ConcurrentAppendsBothCommit ==
    \A t, u \in Tx :
        RacedOnChildlessParent(t, u) =>
            /\ txs[t].ok /\ txs[u].ok
            /\ messages[txs[t].id].branch_id # messages[txs[u].id].branch_id
            /\ messages[txs[t].parent].branch_id
                   \in {messages[txs[t].id].branch_id, messages[txs[u].id].branch_id}

(***************************************************************************)
(*                     CLAIMS ABOUT THE SAVING MIXIN                       *)
(***************************************************************************)
\* SaveToStorage has returned and no store call of it failed.
SaveDone == sv.pc = "done" /\ ~sv.failed

\* The prefixes looked up were those of length n, n-1, ... in this order.
TriedDownward ==
    \A j \in DOMAIN sv.finds : sv.finds[j].len = Len(sv.history) - j + 1

\* Only the last lookup may have found a message; when none did, every
\* prefix down to length 1 was looked up.
StoppedAtFirstMatch ==
    /\ \A j \in 1..(Len(sv.finds) - 1) : sv.finds[j].pid = Nil
    /\ Len(sv.history) > 0 => sv.finds # <<>>
    /\ (sv.finds # <<>> /\ sv.finds[Len(sv.finds)].pid = Nil)
           => Len(sv.finds) = Len(sv.history)

Matched == sv.finds # <<>> /\ sv.finds[Len(sv.finds)].pid # Nil
MatchedLen == sv.finds[Len(sv.finds)].len
MatchedID == sv.finds[Len(sv.finds)].pid
SystemOnlyMatch == Matched /\ MatchedLen = 1 /\ sv.history[1].role = "system"

\* The history messages this run stored are exactly those after position k,
\* in order, chained beneath P.
ChainUnder(P, k) ==
    /\ sv.added = [j \in 1..(Len(sv.history) - k) |-> sv.stored + j]
    /\ \A j \in DOMAIN sv.added :
          LET m == messages[sv.added[j]]
          IN /\ m.role = sv.history[k + j].role
             /\ m.content = sv.history[k + j].content
             /\ m.parent_message_id = IF j = 1 THEN P ELSE sv.added[j - 1]

RootBranch(c) ==
    CHOOSE b \in DOMAIN branches :
        branches[b].conversation_id = c /\ branches[b].parent_branch_id = Nil

\* The rows this run added to the messages table.
NewMessages == (sv.stored + 1)..Len(messages)

\* C11: when the longest matching prefix is a single system message,
\* SaveToStorage attaches nothing to it: it creates a conversation and appends
\* the whole history, system message included, to that conversation's root
\* branch.
C11_SystemOnlyStartsAfresh ==
    (SaveDone /\ SystemOnlyMatch) =>
        /\ sv.created # Nil /\ sv.created = Len(conversations)
        /\ conversations[sv.created].request_type = sv.requestType
        /\ \A i \in NewMessages : messages[i].parent_message_id # MatchedID
        /\ sv.added = [j \in 1..Len(sv.history) |-> sv.stored + j]
        /\ \A j \in DOMAIN sv.added :
              LET m == messages[sv.added[j]]
              IN /\ m.role = sv.history[j].role /\ m.content = sv.history[j].content
                 /\ m.conversation_id = sv.created
                 /\ m.branch_id = RootBranch(sv.created)
                 /\ m.sequence_number = j
                 /\ m.parent_message_id = IF j = 1 THEN Nil ELSE sv.added[j - 1]

\* C11 witness: a system message is stored; a history of that system message
\* and a user message has been saved.
C11_Witness ==
    /\ SaveDone /\ SystemOnlyMatch
    /\ Len(sv.history) = 2 /\ Len(sv.added) = 2

(***************************************************************************)
(*                  CLAIMS ABOUT CONSECUTIVE SAVES                         *)
(***************************************************************************)
\* The call that has just returned had the arguments of the call before it,
\* and no store call failed in either.
Rerun ==
    /\ SaveDone /\ ~sv.prev.failed
    /\ sv.history = sv.prev.history
    /\ sv.assistantMsg = sv.prev.assistantMsg
    /\ sv.statusCode = sv.prev.statusCode
    /\ sv.requestType = sv.prev.requestType

\* The run created no conversation, appended no history message, and the
\* assistant message, if there is one, is the only row it added.
AppendedReplyOnly ==
    /\ sv.created = Nil
    /\ sv.added = <<>>
    /\ NewMessages = (IF HasAssistant(sv.assistantMsg, sv.statusCode)
                        THEN {sv.assistant} ELSE {})

PrevReply == [role |-> sv.prev.assistantMsg.role, content |-> sv.prev.assistantMsg.content]

\* The call before saved history h and reply a; the call that has just
\* returned had a history that starts with h followed by a. No store call
\* failed in either.
FollowUp ==
    /\ SaveDone /\ ~sv.prev.failed
    /\ sv.prev.assistant # Nil
    /\ sv.requestType = sv.prev.requestType
    /\ Len(sv.history) > Len(sv.prev.history)
    /\ SubSeq(sv.history, 1, Len(sv.prev.history)) = sv.prev.history
    /\ sv.history[Len(sv.prev.history) + 1] = PrevReply

\* The assistant message of this run, if any, hangs beneath the last history
\* message, and the run added nothing but its history tail and that message.
ReplyBeneathTail ==
    /\ NewMessages = {sv.added[j] : j \in DOMAIN sv.added}
                        \cup (IF HasAssistant(sv.assistantMsg, sv.statusCode)
                                THEN {sv.assistant} ELSE {})
    /\ sv.assistant # Nil =>
          messages[sv.assistant].parent_message_id =
              (IF sv.added = <<>> THEN MatchedID ELSE sv.added[Len(sv.added)])

NextUpstreamRead == Received /\ IsChunked(resp) /\ pc = "CopyRead"

\* C18: in streaming mode, whenever the next upstream read is due, every chunk
\* read so far has been passed through ChunkInterceptor (when there is an
\* interceptor), has been written to the client as one write, in upstream
\* order, none lost and none twice, and has been flushed: the client has
\* observed as many flushes as chunks were read.
C18_FlushedBeforeNextRead ==
    NextUpstreamRead =>
        /\ intcptor => Count({"ChunkInterceptor"}) = nread
        /\ Len(client.body) = nread
        /\ \A i \in 1..nread : Len(client.body[i]) = 1 /\ client.body[i][1].id = i
        /\ client.flushed = nread

(***************************************************************************)
(*                 CLAIMS ABOUT FAILING STORE CALLS                        *)
(***************************************************************************)
\* C17: when a store call of SaveToStorage returns an error, the failed call
\* leaves the tables as they were, SaveToStorage makes no further store call
\* (no lookup, no conversation, no message) and its next step is its return;
\* no step of SaveToStorage touches the request the proxy is relaying or the
\* bytes of its client.
C17_StoreErrorEndsSave ==
    [][/\ (~sv.failed /\ sv'.failed) =>
              /\ sv'.pc = "done"
              /\ UNCHANGED <<conversations, branches, messages>>
       /\ sv.failed =>
              /\ sv.pc = "done" /\ sv'.pc = "idle"
              /\ UNCHANGED storeVars
       /\ sv' # sv => UNCHANGED proxyVars
      ]_vars

\* C17 witness: a store call failed after this run had created a conversation
\* and appended a message, and SaveToStorage is about to return.
C17_Witness ==
    /\ sv.pc = "done" /\ sv.failed
    /\ last.op = "AddMessage" /\ last.ok
    /\ messages[Len(messages)].parent_message_id = Nil

(***************************************************************************)
(*                CLAIMS ABOUT THE INTERCEPTOR MANAGER                     *)
(***************************************************************************)
\* The registrations for (endpoint, method) among the first n.
RegistrationsFor(n, endpoint, method) ==
    {i \in 1..n : registered[i][1] = endpoint /\ registered[i][2] = method}

\* The interceptor registered for (endpoint, method): that of the latest such
\* registration.
RegisteredFor(n, endpoint, method) ==
    LET is == RegistrationsFor(n, endpoint, method)
    IN registered[CHOOSE i \in is : \A j \in is : j <= i][3]

\* C19: after any sequence of registrations, GetInterceptor(path, method)
\* returns the interceptor registered for exactly (path, method) if there is
\* one, otherwise the one registered for (path, *) if there is one, otherwise
\* none; what it returns was registered for that path, and for that method or
\* the wildcard.
C19_ExactThenWildcard ==
    got # NoLookup =>
        LET n == got.after
            e == got.endpoint
            m == got.method
        IN /\ got.interceptor =
                IF RegistrationsFor(n, e, m) # {} THEN RegisteredFor(n, e, m)
                ELSE IF RegistrationsFor(n, e, Wildcard) # {} THEN RegisteredFor(n, e, Wildcard)
                ELSE NoInterceptor
           /\ got.interceptor # NoInterceptor =>
                \E i \in 1..n : /\ registered[i][1] = e
                                /\ registered[i][2] \in {m, Wildcard}
                                /\ registered[i][3] = got.interceptor

\* C19 witness: with interceptors registered for (/api/chat, POST),
\* (/api/chat, *) and another endpoint, GET /api/chat got the wildcard's.
C19_Witness ==
    /\ got.endpoint = "/api/chat" /\ got.method = "GET" /\ got.after = 3
    /\ got.interceptor = "B"
    /\ registered = << <<"/api/chat", Wildcard, "B">>, <<"/api/chat", "POST", "A">>,
                       <<"/api/wild", "GET", "A">> >>

(***************************************************************************)
(*             CLAIMS ABOUT THE OPENAI CHAT INTERCEPTOR                    *)
(***************************************************************************)
\* The number a JSON number literal denotes, in its shortest form.
Number(l) == IF l = "1.0" THEN "1" ELSE l

\* The JSON object a text denotes: of two members with one key the later one
\* counts, and a number is the number written.
RECURSIVE Denoted(_)
Denoted(ms) ==
    LET keys == {ms[i].key : i \in DOMAIN ms}
        lastOf(k) == CHOOSE i \in DOMAIN ms :
                        ms[i].key = k /\ \A j \in DOMAIN ms : ms[j].key = k => j <= i
        value(v) == IF IsObject(v) THEN [obj |-> Denoted(v.members)]
                                   ELSE Lit(Number(v.lit))
    IN [k \in keys |-> value(ms[lastOf(k)].val)]

\* The request body is a JSON object with stream = true.
StreamRequested == IsObject(chat.in) /\ Stream(Denoted(chat.in.members))

\* The object o merged with {"stream_options": {"include_usage": true}}.
MergedWithIncludeUsage(o) ==
    LET old == IF "stream_options" \in DOMAIN o /\ "obj" \in DOMAIN o["stream_options"]
                 THEN o["stream_options"].obj ELSE <<>>
        new == [k \in DOMAIN old \cup {"include_usage"} |->
                   IF k = "include_usage" THEN JSONTrue ELSE old[k]]
    IN [k \in DOMAIN o \cup {"stream_options"} |->
           IF k = "stream_options" THEN [obj |-> new] ELSE o[k]]

\* C20: for a request whose JSON body has stream = true, the body sent
\* upstream is the JSON object of the input merged with
\* stream_options.include_usage = true (stream_options created if absent, its
\* other keys kept), and the request's Content-Length, field and header, is
\* the length of the new body.
C20_IncludeUsageInjected ==
    (chat.pc = "done" /\ StreamRequested) =>
        /\ IsObject(chat.body)
        /\ Denoted(chat.body.members) = MergedWithIncludeUsage(Denoted(chat.in.members))
        /\ chat.contentLength = ByteLen(chat.body)
        /\ chat.header = ByteLen(chat.body)

\* C21: RequestInterceptor changes nothing but stream_options: with
\* stream = true the body sent upstream has the top-level fields of the input
\* (and stream_options), each one but stream_options with the JSON value the
\* client sent; when stream is false or absent, or the body is not a JSON
\* object, the body sent upstream is the client's body, byte for byte.
C21_OtherFieldsPreserved ==
    chat.pc = "done" =>
        IF StreamRequested
          THEN /\ IsObject(chat.body)
               /\ LET in == Denoted(chat.in.members)
                      out == Denoted(chat.body.members)
                  IN /\ DOMAIN out = DOMAIN in \cup {"stream_options"}
                     /\ \A k \in DOMAIN in \ {"stream_options"} : out[k] = in[k]
          ELSE /\ chat.body = chat.in
               /\ chat.contentLength = ByteLen(chat.in)

(***************************************************************************)
(*             CLAIMS ABOUT THE OPENAI STREAMING DELTAS                    *)
(***************************************************************************)
\* The tool-call deltas of choice c that ChunkInterceptor has parsed, in
\* arrival order.
RECURSIVE ToolDeltasUpTo(_, _)
ToolDeltasUpTo(c, n) ==
    IF n = 0 THEN <<>>
    ELSE LET d == sse.frames[sse.parsed[n]]
         IN ToolDeltasUpTo(c, n - 1) \o (IF d.index = c THEN d.tool_calls ELSE <<>>)
ToolDeltas(c) == ToolDeltasUpTo(c, Len(sse.parsed))

\* Each index appears only after the index before it, as OpenAI streams them.
IndexesInOrder(tds) ==
    \A i \in DOMAIN tds :
        tds[i].index > 0 => \E j \in 1..(i - 1) : tds[j].index = tds[i].index - 1

\* The concatenation, in arrival order, of the argument fragments with index k.
RECURSIVE Fragments(_, _)
Fragments(tds, k) ==
    IF tds = <<>> THEN ""
    ELSE (IF Head(tds).index = k THEN Head(tds).arguments ELSE "") \o Fragments(Tail(tds), k)

\* The last non-empty id among the deltas with index k.
RECURSIVE LastID(_, _)
LastID(tds, k) ==
    IF tds = <<>> THEN ""
    ELSE LET l == tds[Len(tds)]
         IN IF l.index = k /\ l.id # "" THEN l.id ELSE LastID(SubSeq(tds, 1, Len(tds) - 1), k)

\* C22: for every sequence of streaming deltas, each delta tool call is merged
\* into the tool-call list of its choice at the position its index field
\* names: the list has one entry per index seen, and the entry of index k
\* carries the last non-empty id sent with index k and, as arguments, the
\* concatenation in arrival order of the fragments sent with index k.
C22_ToolCallsMergedByIndex ==
    \A c \in 0..1 :
        LET tds == ToolDeltas(c)
            indexes == {tds[i].index : i \in DOMAIN tds}
        IN (tds # <<>> /\ IndexesInOrder(tds)) =>
              /\ Len(sse.response.choices) > c
              /\ LET toolCalls == sse.response.choices[c + 1].toolCalls
                 IN /\ Len(toolCalls) = Cardinality(indexes)
                    /\ \A k \in indexes :
                          /\ toolCalls[k + 1].arguments = Fragments(tds, k)
                          /\ toolCalls[k + 1].id = LastID(tds, k)

\* The content of each choice of a response.
Contents(response) == [j \in DOMAIN response.choices |-> response.choices[j].content]

\* What one ChunkInterceptor call on the whole stream accumulates.
Uncut ==
    MergeLines([sse EXCEPT !.response = NoResponse, !.parsed = <<>>],
               Split(StreamBytes(Len(sse.frames)), <<>>), 1).response

\* C23: for a fixed SSE stream the response content accumulated by the
\* successive ChunkInterceptor calls is the same however the stream was cut
\* into chunks: at the end of the stream it is the content the uncut stream
\* gives, also when a cut fell inside a data: frame.
C23_ContentIndependentOfCuts ==
    sse.pc = "done" => Contents(sse.response) = Contents(Uncut)

(***************************************************************************)
(*                  CLAIMS ABOUT THE SHAPE OF THE STORE                    *)
(***************************************************************************)
\* The branch ids in the child-branch list of message i.
ChildBranches(i) ==
    {messages[i].child_branch_ids[k] : k \in DOMAIN messages[i].child_branch_ids}

\* C24: after every committed fork the new branch is in the child-branch list
\* of the fork-point message and has that message as parent_message_id; in
\* every state each forked branch is listed by its fork-point message, and a
\* child-branch list names existing branches forked off that message only,
\* each once.
C24_ForkListedByParent ==
    /\ Forked =>
          /\ Len(branches) \in ChildBranches(last.parent)
          /\ branches[Len(branches)].parent_message_id = last.parent
    /\ \A b \in DOMAIN branches :
          branches[b].parent_message_id # Nil =>
              /\ branches[b].parent_message_id \in DOMAIN messages
              /\ b \in ChildBranches(branches[b].parent_message_id)
    /\ \A i \in DOMAIN messages :
          /\ \A b \in ChildBranches(i) :
                b \in DOMAIN branches /\ branches[b].parent_message_id = i
          /\ Cardinality(ChildBranches(i)) = Len(messages[i].child_branch_ids)

\* C24 witness: a second fork off one message was committed, and the message
\* lists both branches.
C24_Witness ==
    /\ Forked
    /\ Len(messages[last.parent].child_branch_ids) = 2

(***************************************************************************)
(* C25: FindMessageByHistory returns none for an empty history; otherwise  *)
(* it returns the most recently created message whose cumulative hash is   *)
(* the chained hash of the history and whose conversation has the request  *)
(* type asked for, and none when there is no such message.                 *)
(***************************************************************************)
Looked == last.op = "FindMessageByHistory"

\* the messages a lookup may return: equal chained hash, conversation of the type
Candidates(history, requestType) ==
    {i \in DOMAIN messages :
        /\ messages[i].cumulative_hash = computeHistoryHash(history)
        /\ conversations[messages[i].conversation_id].request_type = requestType}

C25_WitnessNone ==
    /\ Looked
    /\ last.id = Nil
    /\ \/ Len(last.history) = 0 /\ messages # <<>>
       \/ /\ Len(last.history) > 0
          /\ \E i \in DOMAIN messages :
                 /\ messages[i].cumulative_hash = computeHistoryHash(last.history)
                 /\ conversations[messages[i].conversation_id].request_type # last.requestType

(***************************************************************************)
(* C26: a SaveToStorage call with request type T never appends a message   *)
(* to, and never forks a branch in, a conversation whose request_type is   *)
(* not T, even when a conversation of another type holds the same (role,   *)
(* content) prefix.                                                        *)
(***************************************************************************)
TypeOfMessage(msgs, i) == conversations[msgs[i].conversation_id].request_type

\* every step of a running save: the rows it adds lie in conversations of its type
C26_SaveStaysInItsType ==
    [][sv.pc \in {"replay", "assistant"} =>
          /\ \A i \in (Len(messages) + 1)..Len(messages') :
                 TypeOfMessage(messages', i) = sv.requestType
          /\ \A b \in (Len(branches) + 1)..Len(branches') :
                 conversations[branches'[b].conversation_id].request_type = sv.requestType]_vars

\* a conversation of another type holds the whole history of a save of type
\* T; the save has not continued it but stored the history in a conversation
\* of its own type
C26_Witness ==
    /\ sv.pc = "done"
    /\ sv.created # Nil
    /\ Len(sv.history) >= 1
    /\ Len(sv.added) = Len(sv.history)
    /\ \E i \in DOMAIN messages :
           /\ messages[i].cumulative_hash = computeHistoryHash(sv.history)
           /\ TypeOfMessage(messages, i) # sv.requestType
    /\ \A k \in DOMAIN sv.added : TypeOfMessage(messages, sv.added[k]) = sv.requestType

(***************************************************************************)
(* C27: in every reachable store state a branch has a parent_message_id    *)
(* if and only if it has a parent_branch_id, the branch created by         *)
(* CreateConversation has neither, and the fork-point message of a child   *)
(* branch belongs to that child's parent branch and to the same            *)
(* conversation.                                                           *)
(***************************************************************************)
\* the branch CreateConversation made: the first branch row of the conversation
CreatedBranch(c) ==
    CHOOSE b \in DOMAIN branches :
        /\ branches[b].conversation_id = c
        /\ \A b2 \in DOMAIN branches : branches[b2].conversation_id = c => b <= b2

C27_BranchParentsConsistent ==
    /\ \A b \in DOMAIN branches :
           /\ (branches[b].parent_message_id # Nil) <=> (branches[b].parent_branch_id # Nil)
           /\ branches[b].parent_message_id # Nil =>
                  /\ branches[b].parent_message_id \in DOMAIN messages
                  /\ branches[b].parent_branch_id \in DOMAIN branches
                  /\ messages[branches[b].parent_message_id].branch_id =
                         branches[b].parent_branch_id
                  /\ messages[branches[b].parent_message_id].conversation_id =
                         branches[b].conversation_id
                  /\ branches[branches[b].parent_branch_id].conversation_id =
                         branches[b].conversation_id
    /\ \A c \in DOMAIN conversations :
           /\ branches[CreatedBranch(c)].parent_message_id = Nil
           /\ branches[CreatedBranch(c)].parent_branch_id = Nil
    /\ last.op = "CreateConversation" =>
           /\ branches[last.branch].parent_message_id = Nil
           /\ branches[last.branch].parent_branch_id = Nil

\* the second conversation holds a fork, and a conversation was created after it
C27_Witness ==
    /\ \E b \in DOMAIN branches :
           /\ branches[b].parent_message_id # Nil
           /\ branches[b].conversation_id = 2
           /\ \E i \in DOMAIN messages : messages[i].branch_id = b
    /\ \E b \in DOMAIN branches : b > 1 /\ branches[b].parent_message_id = Nil

(***************************************************************************)
(* C28: in every reachable store state each message is the                 *)
(* parent_message_id of at most one message in its own branch; every       *)
(* further child of it is the first message of a distinct child branch     *)
(* whose parent_message_id is that message.                                *)
(***************************************************************************)
OwnChildren(p) == {i \in ChildrenOf(p) : messages[i].branch_id = messages[p].branch_id}
FurtherChildren(p) == ChildrenOf(p) \ OwnChildren(p)
\* the message a branch starts with: the one of the least sequence number
FirstOf(b) ==
    {i \in MessagesOf(b) :
        \A j \in MessagesOf(b) : messages[i].sequence_number <= messages[j].sequence_number}

\* the children of a message: one in its branch, each other in a branch forked at it
C28_ChildrenPlaced ==
    \A p \in DOMAIN messages :
        /\ Cardinality(OwnChildren(p)) <= 1
        /\ \A i \in FurtherChildren(p) :
               /\ branches[messages[i].branch_id].parent_message_id = p
               /\ branches[messages[i].branch_id].parent_branch_id = messages[p].branch_id
        /\ \A i, j \in FurtherChildren(p) :
               i # j => messages[i].branch_id # messages[j].branch_id

C28_OneChildPerBranch ==
    /\ C28_ChildrenPlaced
    /\ \A p \in DOMAIN messages : \A i \in FurtherChildren(p) :
           FirstOf(messages[i].branch_id) = {i}

\* a message with a child in its branch and two forks
C28_Witness ==
    \E p \in DOMAIN messages :
        Cardinality(OwnChildren(p)) = 1 /\ Cardinality(FurtherChildren(p)) = 2

(***************************************************************************)
(* C29: SaveToStorage creates a new conversation, with a root branch,      *)
(* exactly when no prefix of the history matched (a match of a single      *)
(* system message counting as none), and then creates exactly one; when a  *)
(* prefix matched it creates none.                                         *)
(***************************************************************************)
\* The lookups and CreateConversation of this run are over and none failed.
PastCreate == sv.pc \in {"replay", "assistant", "done"} /\ sv # SaveFailed

BranchesOf(c) == {b \in DOMAIN branches : branches[b].conversation_id = c}

C29_CreatedIffNoMatch ==
    PastCreate =>
        /\ (sv.created # Nil) <=> ~(Matched /\ ~SystemOnlyMatch)
        /\ sv.created # Nil =>
               /\ sv.created \in DOMAIN conversations
               /\ conversations[sv.created].request_type = sv.requestType
               /\ \E b \in BranchesOf(sv.created) :
                      /\ branches[b].parent_branch_id = Nil
                      /\ branches[b].parent_message_id = Nil
                      /\ \A b2 \in BranchesOf(sv.created) :
                             branches[b2].parent_branch_id = Nil => b2 = b

\* a conversation row appears only in the create step of a running save that
\* has created none yet, one row together with one branch row
C29_CreatedOnce ==
    Len(conversations') # Len(conversations) =>
        /\ sv.pc = "create" /\ sv.created = Nil
        /\ Len(conversations') = Len(conversations) + 1
        /\ Len(branches') = Len(branches) + 1
        /\ sv'.created = Len(conversations')
        /\ branches'[Len(branches')].conversation_id = sv'.created

C29_OneConversationIffNoMatch ==
    /\ [](C29_CreatedIffNoMatch)
    /\ [][C29_CreatedOnce]_vars

\* the whole history was stored already: the save has created no conversation
C29_Witness ==
    /\ sv.pc = "done" /\ sv # SaveFailed
    /\ Matched /\ MatchedLen = Len(sv.history) /\ Len(sv.history) = 2
    /\ sv.created = Nil
    /\ sv.added = <<>>

\* every prefix was looked up in a store that holds messages and none
\* matched: the save has created the second conversation
C29_WitnessCreated ==
    /\ sv.pc = "done" /\ sv # SaveFailed
    /\ Len(sv.finds) = 2 /\ ~Matched
    /\ sv.created = 2
    /\ sv.stored > 0

(***************************************************************************)
(* C30: SaveToStorage appends the assistant message if and only if its     *)
(* content is non-empty, or it carries at least one tool call, or the      *)
(* status code is non-zero; when appended, its parent is the last history  *)
(* message appended by this call (or the matched message when nothing was  *)
(* appended) and it carries the status code.                               *)
(***************************************************************************)
\* SaveToStorage has returned and no store call before line 87 failed.
SaveReturned == sv.pc = "done" /\ sv # SaveFailed

\* The rows this run added that are not replayed history messages.
AssistantRows == {i \in NewMessages : \A k \in DOMAIN sv.added : sv.added[k] # i}

AssistantPlaced ==
    /\ HasAssistant(sv.assistantMsg, sv.statusCode) <=> AssistantRows # {}
    /\ \A a \in AssistantRows :
           /\ AssistantRows = {a}
           /\ a = sv.assistant
           /\ messages[a].role = sv.assistantMsg.role
           /\ messages[a].content = sv.assistantMsg.content
           /\ messages[a].upstream_status_code = sv.statusCode
           /\ messages[a].parent_message_id =
                  IF sv.added # <<>> THEN sv.added[Len(sv.added)] ELSE MatchedID

C30_AssistantAppended == SaveReturned => AssistantPlaced

\* the same for the calls with a history that is not empty
C30_AssistantAppendedToHistory == (SaveReturned /\ sv.history # <<>>) => AssistantPlaced

(***************************************************************************)
(*              CLAIMS ABOUT THE TWO SAVES OF ONE REQUEST                  *)
(***************************************************************************)
\* Both saves of the request have returned and no store call failed for a
\* reason outside the calls' arguments.
BothSaved == rq.pc = "done" /\ ~rq.failed

\* The rows the request-time save and the terminal save added.
RequestRows == (rq.stored + 1)..rq.middle
TerminalRows == (rq.middle + 1)..Len(messages)

\* The rows of the request that store history message k.
RowsOfHistory(k) ==
    {i \in (RequestRows \cup TerminalRows) \ {rq.assistant} :
        /\ messages[i].cumulative_hash = computeHistoryHash(SubSeq(rq.history, 1, k))
        /\ messages[i].role = rq.history[k].role
        /\ messages[i].content = rq.history[k].content}

\* The request-time save has stored history messages only.
NoAssistantAtRequestTime ==
    /\ rq.requestAssistant = Nil
    /\ \A i \in RequestRows :
           /\ messages[i].upstream_status_code = 0
           /\ \E k \in DOMAIN rq.history : i \in RowsOfHistory(k)

\* At most one row of the request is no history message: the assistant message.
AssistantAtMostOnce ==
    /\ \A i \in (RequestRows \cup TerminalRows) \ {rq.assistant} :
           \E k \in DOMAIN rq.history : i \in RowsOfHistory(k)
    /\ rq.assistant # Nil => rq.assistant \in TerminalRows

BodyFailed == err \in {"read", "write", "short write"}

\* The client has the upstream status and no other, the request is on its
\* way out, and its terminal hook, once called, is OnError.
OneStatusThenOnError ==
    BodyFailed =>
        /\ client.status = <<resp.status>>
        /\ Len(client.body) <= nread
        /\ \A i \in DOMAIN client.body : \A j \in DOMAIN client.body[i] :
               client.body[i][j].id \in 1..resp.chunks
        /\ pc \in {"return", "inOnError", "log", "done"}
        /\ Count({"OnComplete"}) = 0
        /\ (intcptor /\ pc # "return") =>
               trace[Len(trace)] = "OnError" /\ Count({"OnError"}) = 1

\* After the failure nothing more is read or written, no hook but OnError is
\* called, and the failure stays the error of the request.
NothingRelayedAfterFailure ==
    BodyFailed =>
        /\ client'.status = client.status
        /\ client'.body = client.body
        /\ nread' = nread
        /\ err' = err
        /\ trace' \in {trace, Append(trace, "OnError")}

\* C32: when reading the upstream body or writing to the client fails after
\* the status line was sent, the proxy writes no second status code or error
\* body to the client, stops relaying, and the terminal hook is OnError with
\* that failure.
C32_BodyFailureEndsInOnError ==
    /\ [](OneStatusThenOnError)
    /\ [][NothingRelayedAfterFailure]_vars

\* the write of the second chunk failed after the first had been relayed
C32_Witness ==
    /\ pc = "done" /\ intcptor /\ err = "write"
    /\ nread = 2 /\ Len(client.body) = 1
    /\ client.status = <<resp.status>>
    /\ trace[Len(trace)] = "OnError"

\* the read of the upstream body failed after both chunks had been relayed
C32_WitnessRead ==
    /\ pc = "done" /\ intcptor /\ err = "read"
    /\ Len(client.body) = 2
    /\ trace[Len(trace)] = "OnError"

(***************************************************************************)
(*                 CLAIMS ABOUT THE OLLAMA INTERCEPTORS                    *)
(***************************************************************************)
\* The chunks that parsed, in arrival order, as the interceptor decoded them.
RECURSIVE ParsedOf(_, _)
ParsedOf(kind, chunks) ==
    IF chunks = <<>> THEN <<>>
    ELSE IF Parses(chunks[1])
           THEN <<Decoded(kind, chunks[1])>> \o ParsedOf(kind, Tail(chunks))
           ELSE ParsedOf(kind, Tail(chunks))

RECURSIVE Concatenation(_)
Concatenation(parsed) ==
    IF parsed = <<>> THEN "" ELSE parsed[1].content \o Concatenation(Tail(parsed))

\* The positions of the parsed chunks that carry done=true.
DoneChunks(parsed) == {i \in DOMAIN parsed : parsed[i].done}
LastDone(parsed) == parsed[CHOOSE i \in DoneChunks(parsed) : \A j \in DoneChunks(parsed) : j <= i]

\* C33: after any sequence of chunks the accumulated assistant content is the
\* concatenation, in arrival order, of the content (message.content for chat,
\* response for generate) of every chunk that parsed; once a chunk with
\* done=true has been seen, the model, token counts and durations held, and
\* saved by saveLog, are those of that chunk (of the latest such chunk).
C33_ContentConcatenatedMetaFromDone ==
    oll.pc \in {"streaming", "saved"} =>
        LET parsed == ParsedOf(oll.kind, oll.chunks)
        IN /\ oll.response.content = Concatenation(parsed)
           /\ DoneChunks(parsed) # {} => oll.response.meta = LastDone(parsed).meta
           /\ oll.pc = "saved" =>
                  /\ oll.saved.content = Concatenation(parsed)
                  /\ DoneChunks(parsed) # {} =>
                         /\ oll.saved.model = LastDone(parsed).meta.model
                         /\ oll.saved.prompt_tokens = LastDone(parsed).meta.prompt_eval_count
                         /\ oll.saved.completion_tokens = LastDone(parsed).meta.eval_count
                         /\ oll.saved.prompt_eval_duration =
                                LastDone(parsed).meta.prompt_eval_duration
                         /\ oll.saved.eval_duration = LastDone(parsed).meta.eval_duration

\* a chat stream "b", a chunk that did not parse, then "a" with done=true: the
\* saved content is "ba" and the metadata are the final chunk's
C33_Witness ==
    /\ oll.pc = "saved" /\ oll.kind = "chat"
    /\ Len(oll.chunks) = 3
    /\ Parses(oll.chunks[1]) /\ ~Parses(oll.chunks[2]) /\ Parses(oll.chunks[3])
    /\ ~oll.chunks[1].objects[1].done /\ oll.chunks[3].objects[1].done
    /\ oll.chunks[1].objects[1].meta # oll.chunks[3].objects[1].meta
    /\ oll.saved.content = "ba"
    /\ oll.saved.model = oll.chunks[3].objects[1].meta.model

(***************************************************************************)
(*                 CLAIMS ABOUT SINGLE ADDMESSAGE CALLS                    *)
(***************************************************************************)
\* The last store call was an AddMessage without a parent message.
Parentless == last.op = "AddMessage" /\ last.parent = Nil

\* With a branch id, a parentless AddMessage that returns a message has put
\* it into that branch with sequence number 1 and the hash of role and
\* content alone; without one it has returned an error.
FirstOfBranch ==
    Parentless =>
        /\ last.branch = Nil => ~last.ok
        /\ (last.branch # Nil /\ last.ok) =>
               /\ last.id = Len(messages)
               /\ messages[last.id].branch_id = last.branch
               /\ messages[last.id].parent_message_id = Nil
               /\ messages[last.id].sequence_number = 1
               /\ messages[last.id].cumulative_hash =
                      Digest(messages[last.id].role \o messages[last.id].content)

\* A parentless AddMessage without a branch id changes no table.
NoBranchNoChange ==
    (last'.op = "AddMessage" /\ last'.parent = Nil /\ last'.branch = Nil) =>
        /\ ~last'.ok
        /\ UNCHANGED <<conversations, branches, messages>>

\* C34: AddMessage without a parent message requires a branch_id: with one,
\* the message gets sequence number 1 in that branch and the hash
\* SHA256(role || content); without one, AddMessage returns an error and the
\* store is unchanged.
C34_ParentlessNeedsBranch ==
    /\ [](FirstOfBranch)
    /\ [][NoBranchNoChange]_vars

\* a parentless message went into the root branch of the second conversation
C34_Witness ==
    /\ Parentless /\ last.ok
    /\ last.branch = 2
    /\ messages[last.id].sequence_number = 1
    /\ Len(messages) >= 2

\* a parentless AddMessage without a branch id was refused by a store that
\* holds messages
C34_WitnessRefused ==
    /\ Parentless /\ last.branch = Nil /\ ~last.ok
    /\ Len(messages) >= 1

(***************************************************************************)
(* C35: when SaveToStorage is called with an empty history and a non-zero  *)
(* status code, it creates a new conversation and then attempts the        *)
(* assistant append with neither a parent message nor a branch id, which   *)
(* the store rejects; the call returns with a conversation that holds no   *)
(* message and the assistant message is not stored.                        *)
(***************************************************************************)
EmptyHistoryWithStatus ==
    /\ SaveReturned
    /\ sv.history = <<>>
    /\ sv.statusCode # 0

C35_EmptyHistoryLeavesEmptyConversation ==
    EmptyHistoryWithStatus =>
        /\ sv.finds = <<>>
        /\ sv.created = Len(conversations)
        /\ conversations[sv.created].request_type = sv.requestType
        /\ \A i \in DOMAIN messages : messages[i].conversation_id # sv.created
        /\ last.op = "AddMessage" /\ last.parent = Nil /\ last.branch = Nil /\ ~last.ok
        /\ sv.failed
        /\ sv.assistant = Nil
        /\ Len(messages) = sv.stored

\* the store held a conversation with messages; the call has left a second,
\* empty conversation behind
C35_Witness ==
    /\ EmptyHistoryWithStatus
    /\ sv.created = 2
    /\ sv.stored >= 1
    /\ sv.failed

(***************************************************************************)
(* C36: an AddMessage call that returns an error leaves the store exactly  *)
(* as it was before the call: in particular a fork whose message insert    *)
(* fails leaves no new branch and no new entry in the parent's             *)
(* child-branch list, so every non-root branch always contains at least    *)
(* one message.                                                            *)
(***************************************************************************)
\* An AddMessage call that returns an error has changed no table.
ErrorChangesNothing ==
    (last'.op = "AddMessage" /\ ~last'.ok) =>
        UNCHANGED <<conversations, branches, messages>>

\* Every forked branch holds a message, and every entry of a child-branch
\* list names a branch forked at that message.
NoEmptyFork ==
    /\ \A b \in DOMAIN branches :
           branches[b].parent_branch_id # Nil => MessagesOf(b) # {}
    /\ \A p \in DOMAIN messages :
           \A k \in DOMAIN messages[p].child_branch_ids :
               /\ messages[p].child_branch_ids[k] \in DOMAIN branches
               /\ branches[messages[p].child_branch_ids[k]].parent_message_id = p

C36_ErrorLeavesStoreUnchanged ==
    /\ [](NoEmptyFork)
    /\ [][ErrorChangesNothing]_vars

\* an AddMessage under a parent that has a child already, so that a branch
\* was forked for it, has returned an error
C36_Witness ==
    /\ last.op = "AddMessage" /\ ~last.ok
    /\ last.parent \in DOMAIN messages
    /\ HasChildren(messages, last.parent)
    /\ Len(branches) = last.nbranches
    /\ messages[last.parent].child_branch_ids = <<>>

(***************************************************************************)
(* C37: in every reachable store state, every message m that has a parent  *)
(* message p satisfies m.sequence_number = p.sequence_number + 1,          *)
(* m.cumulative_hash = SHA256(p.cumulative_hash || m.role || m.content)    *)
(* and m.conversation_id = p.conversation_id, whether m extended p's       *)
(* branch or opened a fork.                                                *)
(***************************************************************************)
WithParent == {i \in DOMAIN messages : messages[i].parent_message_id # Nil}

FollowsParent(i) ==
    LET m == messages[i]
        p == messages[m.parent_message_id]
    IN  /\ m.sequence_number = p.sequence_number + 1
        /\ m.cumulative_hash = Digest(p.cumulative_hash \o m.role \o m.content)
        /\ m.conversation_id = p.conversation_id

C37_ChildFollowsParent ==
    \A i \in WithParent :
        /\ messages[i].parent_message_id \in DOMAIN messages
        /\ FollowsParent(i)

\* one parent has a child in its own branch and a child that opened a fork
C37_Witness ==
    \E i, j \in WithParent :
        /\ i # j
        /\ messages[i].parent_message_id = messages[j].parent_message_id
        /\ messages[i].branch_id = messages[messages[i].parent_message_id].branch_id
        /\ messages[j].branch_id # messages[messages[j].parent_message_id].branch_id
        /\ messages[messages[i].parent_message_id].parent_message_id # Nil

(***************************************************************************)
(* C38: under every interleaving of concurrent SaveToStorage calls and     *)
(* concurrent AddMessage transactions, the committed store state keeps     *)
(* (branch_id, sequence_number) unique and keeps the sequence numbers of   *)
(* every branch contiguous; a transaction that would break this fails and  *)
(* commits nothing. The AddMessage transactions of SpecTx take every       *)
(* argument a SaveToStorage call can pass (a parent message, or no parent  *)
(* and a branch), so the calls of concurrent saves are among them.         *)
(***************************************************************************)
CommittedKeysUnique ==
    \A i, j \in DOMAIN messages :
        (/\ messages[i].branch_id = messages[j].branch_id
         /\ messages[i].sequence_number = messages[j].sequence_number) => i = j

CommittedNumbers(b) == {messages[i].sequence_number : i \in MessagesOf(b)}

NoGap(numbers) ==
    \A n \in numbers : \A k \in numbers : \A g \in (n + 1)..(k - 1) : g \in numbers

CommittedRunsContiguous == \A b \in DOMAIN branches : NoGap(CommittedNumbers(b))

C38_UniqueAndContiguous == CommittedKeysUnique /\ CommittedRunsContiguous

\* The part the unique constraint alone enforces, which holds.
C38_KeysUnique == CommittedKeysUnique

\* a transaction met a committed row with its key and was rolled back
C38_WitnessRefused ==
    \E t \in Tx : /\ txs[t].pc = "done" /\ ~txs[t].ok
                  /\ txs[t].branchID \in DOMAIN branches
                  /\ UniqueViolation(messages, txs[t].branchID, txs[t].lastSeq + 1)

(***************************************************************************)
(* C39: a single SaveToStorage call that runs with no concurrent writer    *)
(* creates at most one new branch by forking, and all messages it appends  *)
(* (tail history messages and the assistant message) lie in one and the    *)
(* same branch with consecutive sequence numbers.                          *)
(***************************************************************************)
\* A call is under way or has returned without an error.
SaveRunning == sv.pc # "idle" /\ sv # SaveFailed

\* The branches the call forked: a fork is committed with its first message.
ForkedByCall ==
    {b \in DOMAIN branches :
        /\ branches[b].parent_branch_id # Nil
        /\ \E i \in NewMessages : messages[i].branch_id = b
        /\ \A i \in MessagesOf(b) : i \in NewMessages}

AppendedInOneRun ==
    /\ \A i, j \in NewMessages : messages[i].branch_id = messages[j].branch_id
    /\ \A i \in NewMessages :
           i + 1 \in NewMessages =>
               messages[i + 1].sequence_number = messages[i].sequence_number + 1

C39_OneForkOneRun ==
    SaveRunning => /\ Cardinality(ForkedByCall) <= 1
                   /\ AppendedInOneRun

\* the call forked a branch and appended a history message and the
\* assistant message to it
C39_Witness ==
    /\ SaveDone
    /\ Cardinality(ForkedByCall) = 1
    /\ Cardinality(NewMessages) >= 2
    /\ sv.assistant \in NewMessages
    /\ sv.added # <<>>

(***************************************************************************)
(* C40: for a request whose (path, method) has no registered interceptor,  *)
(* the proxy invokes no hook at all, still forwards the request upstream,  *)
(* and relays the upstream status, headers and body to the client          *)
(* unchanged.                                                              *)
(***************************************************************************)
\* The request is over and the registry had no interceptor for it.
MissDone == pc = "done" /\ ~intcptor

NoHookForwardedOnce == Count(HookNames) = 0 /\ Count({"Dispatch"}) = 1

StatusAndHeaderRelayed ==
    /\ client.status = <<resp.status>>
    /\ client.header = resp.header

\* C40 as stated: every response received is relayed whole.
C40_Original ==
    MissDone =>
        /\ NoHookForwardedOnce
        /\ Received => /\ StatusAndHeaderRelayed
                       /\ Relayed = Body(resp.chunks)

\* C40 amended: no hook is invoked and the request is forwarded once; a
\* response that is received is relayed with its status and headers, and the
\* body the client receives is the upstream body unchanged when neither the
\* read of the body nor the write to the client failed, and otherwise the
\* chunks relayed before the failure, unchanged, which are none when the read
\* of a body that is not chunked fails; a failed dispatch is answered with 502.
C40_MissPassesThrough ==
    /\ ~intcptor => Count(HookNames) = 0
    /\ MissDone =>
        /\ NoHookForwardedOnce
        /\ IF Received
             THEN /\ StatusAndHeaderRelayed
                  /\ Len(Relayed) <= resp.chunks
                  /\ \A i \in DOMAIN Relayed : Relayed[i] = Chunk(i)
                  /\ err \in {"", "status", "read", "write"}
                  /\ err \in {"", "status"} => Relayed = Body(resp.chunks)
                  /\ (err = "read" /\ ~IsChunked(resp)) => Relayed = <<>>
             ELSE /\ err = "transport"
                  /\ client.status = <<StatusBadGateway>>

\* a chunked response with two header values and two chunks went through
C40_Witness ==
    /\ MissDone /\ Received /\ err = ""
    /\ IsChunked(resp) /\ resp.chunks = 2
    /\ resp.header # NoHeader
    /\ client.header = resp.header
    /\ Relayed = Body(2)

\* the read of a body that is not chunked failed: status and headers are out,
\* no byte of the body is
C40_WitnessReadFailed ==
    /\ MissDone /\ Received /\ err = "read"
    /\ ~IsChunked(resp) /\ resp.chunks = 2
    /\ client.status = <<resp.status>>
    /\ Relayed = <<>>

====
